---- MODULE Spec2Model ----
(***************************************************************************)
(* Channel supervisors of pixel12digital/whatsapp-web.js.                  *)
(*                                                                         *)
(* The repository holds several independent HTTP front-ends around the     *)
(* whatsapp-web.js Client.  Each of them keeps the same module-level maps  *)
(* (clients, qrCodes, connectionStatus, ...), so the servers share the     *)
(* variables below and each server has its own next-state relation:        *)
(*                                                                         *)
(*   SpecB  the backoff server        src/unnamed/part_003 lines 547-907   *)
(*   SpecW  the first plain server    src/web-server.js    lines 1-439     *)
(*   SpecX  the Express server        src/web-server.js    lines 441-1159  *)
(*   SpecP  the logout/reset server   src/unnamed/part_004                 *)
(*   SpecS  a single-channel server   src/unnamed/part_006                 *)
(*   SpecH  a single-channel server   src/unnamed/part_002                 *)
(*                                                                         *)
(* and, for single questions, parts of these servers:                      *)
(*                                                                         *)
(*   SpecBF  SpecB with failing status checks as the only trouble          *)
(*   SpecB2  SpecB on both ports with the 30 s interval, fair              *)
(*   SpecX2  SpecX on both ports, PUPPETEER_EXECUTABLE_PATH configured     *)
(*   SpecPQ  SpecP around GET /qr and /qr.png, fair                        *)
(*   SpecPA  SpecP driven by its HTTP requests, with their token header   *)
(*   SpecPT  SpecP around GET /status, with the clock                      *)
(*   SpecHF  SpecH in which every awaited promise settles                 *)
(*                                                                         *)
(* The wrapped library is the environment: a Client on which destroy() has *)
(* not been called may emit any of its events at any moment, and its       *)
(* promises (initialize, getState, destroy, sendMessage) settle at any     *)
(* later moment, either way.  Node runs every callback to its next await   *)
(* without interleaving, so one action is one such run.                    *)
(***************************************************************************)
EXTENDS Integers, Sequences, FiniteSets, Bags, TLC

VARIABLES
    clients,            \* port -> Client object in the map (NoClient: no entry)
    live,               \* port -> Client objects constructed, destroy() never called
    qrCodes,            \* port -> QR string or NoQR
    connectionStatus,   \* port -> "undefined" | "true" | "false"
    reconnectAttempts,  \* port -> retry counter (backoff server)
    lastState,          \* port -> last state string (Express servers)
    timers,             \* port -> pending setTimeout callbacks
    tasks,              \* port -> async functions suspended at an await
    send,               \* port -> outcome of the last POST /send
    lastEvent,          \* port -> the library event whose handler ran in the last step
                        \*         (recorded by the two plain servers)
    reply,              \* port -> the HTTP response the last step sent, if it sent one
                        \*         (recorded for GET /qr of the first server)
    execPath,           \* process.env.PUPPETEER_EXECUTABLE_PATH: "set" or "unset"
    isInitializing,     \* the flag of that name of src/unnamed/part_002
    clock,              \* Date.now(), in ms since the process started counting
    lastGetStateAt,     \* port -> the map of that name of src/unnamed/part_004
    lastCallAt          \* port -> when GET /status last called getState() (history)

vars == <<clients, live, qrCodes, connectionStatus, reconnectAttempts,
          lastState, timers, tasks, send, lastEvent, reply, execPath, isInitializing,
          clock, lastGetStateAt, lastCallAt>>

----------------------------------------------------------------------------
(* Bounds of the model *)

\* Client objects per port that can exist or be referenced at one time
MaxClients == 2
\* pending setTimeout callbacks per port
MaxTimers == 2
\* suspended async functions per port
MaxTasks == 2
\* suspended async functions of the server of part_002
H_MaxTasks == 3
\* GET /qr and /qr.png requests open per port
MaxQrRequests == 1
\* rounds of the interval of the backoff server that wait at one time
MaxRounds == 1
\* Date.now() when the server starts to count, the step of the clock and its
\* last value, in ms
StartTime == 5000
TickMs == 2000
MaxTime == 13000

(* Program constants *)

\* the ports the interval of the backoff server checks, in its order (part_003 lines 903-904)
IntervalFirst == 3000
IntervalSecond == 3001

\* attempts of the polling loop of GET /qr of the first server (web-server.js line 208)
MaxQrPolls == 10

\* GET /status of part_004 calls getState() again after this many ms (line 329)
statusThrottle == 4000

\* attempts of the polling loop of /qr of part_002 (line 219)
H_QrPolls == 10

\* attempts of the two polling loops of GET /qr of part_006 (lines 112, 120)
S_StartPolls == 5
S_WaitPolls == 3

maxReconnectAttempts == 5
baseDelay == 1000
capDelay == 30000
restartDelay == 5000
retryDelay == 10000

\* one channel: every handler reads and writes only the entries of its own port
Ports == {3000}

NoClient == 0
NoQR == "null"
QRs == {"ABC123"}
ClientIds == 1..MaxClients

\* what getState() can resolve to; "reject" stands for a rejected promise
GetStateResults == {"CONNECTED", "OPENING", "null", "reject"}

Min(a, b) == IF a < b THEN a ELSE b

\* timers and suspended functions are bags: their order of creation decides nothing
Put(b, e) == b (+) SetToBag({e})

Take(b, e) == b (-) SetToBag({e})

Size(b) == BagCardinality(b)

\* JavaScript truthiness of a connectionStatus entry
Truthy(v) == v = "true"

\* the objects some suspended function still holds in a local variable or closure
Referenced(p) == {t.c : t \in BagToSet(tasks[p])}

\* a Client identity that nothing refers to any more can name the next new Client()
FreeIds(p) == {i \in ClientIds : i \notin live[p] /\ i # clients[p] /\ i \notin Referenced(p)}

NewId(p) == CHOOSE i \in FreeIds(p) : \A j \in FreeIds(p) : i <= j

CanConstruct(p) == FreeIds(p) # {}

CanSuspend(p) == Size(tasks[p]) < MaxTasks

\* channels the listen callbacks start by themselves
AutoPorts == {3000, 3001}

\* POST /send: where the request is, its HTTP status, whether sendMessage was
\* invoked, and what connectionStatus was when the body had ended
IdleSend == [pc |-> "idle", code |-> 0, forwarded |-> FALSE, atEnd |-> "none", body |-> "none"]

Respond(code) == [pc |-> "done", code |-> code, forwarded |-> FALSE, atEnd |-> "none", body |-> "none"]

SendIdle(p) == send[p].pc \in {"idle", "done"}

\* no response, and the answer of GET /qr when no QR is stored (web-server.js line 219)
NoReply == [route |-> "none", qr |-> NoQR]
Placeholder == "QR code nao disponivel"

\* what a step of port p leaves in the two one-step records
Step(p, e, r) ==
    /\ lastEvent' = [lastEvent EXCEPT ![p] = e]
    /\ reply' = [reply EXCEPT ![p] = r]
    /\ UNCHANGED <<clock, lastGetStateAt, lastCallAt>>

\* the step ran the handler of event e of a client of port p
Emitted(p, e) == Step(p, e, NoReply) /\ UNCHANGED <<execPath, isInitializing>>

\* the step ran something else: a request, a timer, a continuation
Quiet(p) == Step(p, "none", NoReply) /\ UNCHANGED <<execPath, isInitializing>>

\* the step ended a request with response r
Answered(p, r) == Step(p, "none", r) /\ UNCHANGED <<execPath, isInitializing>>

\* request bodies of POST /send
Bodies == {"ok", "missing", "badjson"}

----------------------------------------------------------------------------
(* Backoff server: src/unnamed/part_003 lines 547-907 *)

\* Math.min(1000 * Math.pow(2, n), 30000)
Delay(n) == Min(baseDelay * 2^n, capDelay)

\* scheduleReconnect(port): the timers of the port after the call, n = reconnectAttempts[port]
scheduleReconnect(ts, n) ==
    IF n < maxReconnectAttempts
    THEN Put(ts, [delay |-> Delay(n), kind |-> "reconnect"])
    ELSE ts

\* room for the timer a scheduleReconnect call would add
CanSchedule(p) ==
    reconnectAttempts[p] < maxReconnectAttempts => Size(timers[p]) < MaxTimers

\* startClient up to its first await, when it passes the guard of line 626:
\* either it calls destroy() on the old client and suspends, or it constructs
B_startClient(p) ==
    IF clients[p] # NoClient
    THEN /\ CanSuspend(p)
         /\ live' = [live EXCEPT ![p] = @ \ {clients[p]}]
         /\ tasks' = [tasks EXCEPT ![p] = Put(@, [op |-> "startClient", pc |-> "destroy", c |-> clients[p]])]
         /\ UNCHANGED clients
    ELSE /\ CanSuspend(p) /\ CanConstruct(p)
         /\ clients' = [clients EXCEPT ![p] = NewId(p)]
         /\ live' = [live EXCEPT ![p] = @ \cup {NewId(p)}]
         /\ tasks' = [tasks EXCEPT ![p] = Put(@, [op |-> "startClient", pc |-> "initialize", c |-> NewId(p)])]

\* startClient resumes after 'await clients[port].destroy()' (lines 638-701)
B_startClient_destroyed(p, t) ==
    /\ Quiet(p)
    /\ t.op = "startClient" /\ t.pc = "destroy"
    /\ LET rest == Take(tasks[p], t)
           free == {j \in ClientIds : j \notin live[p] /\ j \notin {u.c : u \in BagToSet(rest)}}
           new  == CHOOSE j \in free : \A k \in free : j <= k
       IN /\ free # {}
          /\ clients' = [clients EXCEPT ![p] = new]
          /\ live' = [live EXCEPT ![p] = @ \cup {new}]
          /\ tasks' = [tasks EXCEPT ![p] = Put(rest, [op |-> "startClient", pc |-> "initialize", c |-> new])]
    /\ connectionStatus' = [connectionStatus EXCEPT ![p] = "false"]
    /\ qrCodes' = [qrCodes EXCEPT ![p] = NoQR]
    /\ UNCHANGED <<reconnectAttempts, lastState, timers, send>>

\* 'await clients[port].initialize()' resolves: startClient returns
B_initialize_resolved(p, t) ==
    /\ Quiet(p)
    /\ t.op = "startClient" /\ t.pc = "initialize"
    /\ tasks' = [tasks EXCEPT ![p] = Take(@, t)]
    /\ UNCHANGED <<clients, live, qrCodes, connectionStatus, reconnectAttempts, lastState, timers, send>>

\* 'await clients[port].initialize()' rejects: the catch block (lines 702-706)
B_initialize_rejected(p, t) ==
    /\ Quiet(p)
    /\ t.op = "startClient" /\ t.pc = "initialize"
    /\ CanSchedule(p)
    /\ tasks' = [tasks EXCEPT ![p] = Take(@, t)]
    /\ connectionStatus' = [connectionStatus EXCEPT ![p] = "false"]
    /\ timers' = [timers EXCEPT ![p] = scheduleReconnect(@, reconnectAttempts[p])]
    /\ UNCHANGED <<clients, live, qrCodes, reconnectAttempts, lastState, send>>

\* the setTimeout callback of scheduleReconnect (lines 615-618)
B_timer(p, tm) ==
    /\ Quiet(p)
    /\ tm.kind = "reconnect"
    /\ timers' = [timers EXCEPT ![p] = Take(@, tm)]
    /\ reconnectAttempts' = [reconnectAttempts EXCEPT ![p] = @ + 1]
    /\ IF clients[p] # NoClient /\ Truthy(connectionStatus[p])
       THEN UNCHANGED <<clients, live, tasks>>
       ELSE B_startClient(p)
    /\ UNCHANGED <<qrCodes, connectionStatus, lastState, send>>

\* client.on('qr')
B_qr(p, c, qr) ==
    /\ Emitted(p, "qr")
    /\ c \in live[p]
    /\ qrCodes' = [qrCodes EXCEPT ![p] = qr]
    /\ UNCHANGED <<clients, live, connectionStatus, reconnectAttempts, lastState, timers, tasks, send>>

\* mutant: 'ready' without the reset of the retry counter
B_ready_keepingAttempts(p, c) ==
    /\ Emitted(p, "ready")
    /\ c \in live[p]
    /\ connectionStatus' = [connectionStatus EXCEPT ![p] = "true"]
    /\ qrCodes' = [qrCodes EXCEPT ![p] = NoQR]
    /\ UNCHANGED <<clients, live, reconnectAttempts, lastState, timers, tasks, send>>

\* client.on('ready')
B_ready(p, c) ==
    /\ Emitted(p, "ready")
    /\ c \in live[p]
    /\ connectionStatus' = [connectionStatus EXCEPT ![p] = "true"]
    /\ qrCodes' = [qrCodes EXCEPT ![p] = NoQR]
    /\ reconnectAttempts' = [reconnectAttempts EXCEPT ![p] = 0]
    /\ UNCHANGED <<clients, live, lastState, timers, tasks, send>>

\* client.on('authenticated')
B_authenticated(p, c) ==
    /\ Emitted(p, "authenticated")
    /\ c \in live[p]
    /\ connectionStatus' = [connectionStatus EXCEPT ![p] = "true"]
    /\ qrCodes' = [qrCodes EXCEPT ![p] = NoQR]
    /\ reconnectAttempts' = [reconnectAttempts EXCEPT ![p] = 0]
    /\ UNCHANGED <<clients, live, lastState, timers, tasks, send>>

\* client.on('disconnected')
B_disconnected(p, c) ==
    /\ Emitted(p, "disconnected")
    /\ c \in live[p]
    /\ CanSchedule(p)
    /\ connectionStatus' = [connectionStatus EXCEPT ![p] = "false"]
    /\ qrCodes' = [qrCodes EXCEPT ![p] = NoQR]
    /\ timers' = [timers EXCEPT ![p] = scheduleReconnect(@, reconnectAttempts[p])]
    /\ UNCHANGED <<clients, live, reconnectAttempts, lastState, tasks, send>>

\* mutant: 'auth_failure' handled as terminal, without scheduleReconnect
B_auth_failure_terminal(p, c) ==
    /\ Emitted(p, "auth_failure")
    /\ c \in live[p]
    /\ connectionStatus' = [connectionStatus EXCEPT ![p] = "false"]
    /\ qrCodes' = [qrCodes EXCEPT ![p] = NoQR]
    /\ UNCHANGED <<clients, live, reconnectAttempts, lastState, timers, tasks, send>>

\* client.on('auth_failure')
B_auth_failure(p, c) ==
    /\ Emitted(p, "auth_failure")
    /\ c \in live[p]
    /\ CanSchedule(p)
    /\ connectionStatus' = [connectionStatus EXCEPT ![p] = "false"]
    /\ qrCodes' = [qrCodes EXCEPT ![p] = NoQR]
    /\ timers' = [timers EXCEPT ![p] = scheduleReconnect(@, reconnectAttempts[p])]
    /\ UNCHANGED <<clients, live, reconnectAttempts, lastState, tasks, send>>

\* checkConnectionStatus after 'await client.getState()' settled with r (lines 578-602):
\* the entries of the port it leaves behind
B_checked(p, r) ==
    LET is == IF r = "CONNECTED" THEN "true" ELSE "false"
        cur == [status |-> connectionStatus[p], qr |-> qrCodes[p],
                attempts |-> reconnectAttempts[p], timers |-> timers[p]]
    IN IF r = "reject"
       THEN IF Truthy(connectionStatus[p])
            THEN [cur EXCEPT !.status = "false",
                             !.timers = scheduleReconnect(timers[p], reconnectAttempts[p])]
            ELSE cur
       ELSE IF is # connectionStatus[p]
            THEN IF is = "true"
                 THEN [cur EXCEPT !.status = "true", !.qr = NoQR, !.attempts = 0]
                 ELSE [cur EXCEPT !.status = "false",
                                  !.timers = scheduleReconnect(timers[p], reconnectAttempts[p])]
            ELSE cur

\* what the caller of checkConnectionStatus does next, the check having left `after`
B_afterCheck(p, by, rest, after) ==
    /\ qrCodes' = [qrCodes EXCEPT ![p] = after.qr]
    /\ connectionStatus' = [connectionStatus EXCEPT ![p] = after.status]
    /\ reconnectAttempts' = [reconnectAttempts EXCEPT ![p] = after.attempts]
    /\ timers' = [timers EXCEPT ![p] = after.timers]
    /\ Size(after.timers) <= MaxTimers
    /\ UNCHANGED lastState
    /\ CASE by = "poll" ->
              \* /health, /status, /test and the 30 s interval only read the result
              /\ tasks' = [tasks EXCEPT ![p] = rest]
              /\ UNCHANGED <<clients, live, send>>
         [] by = "qr" ->
              \* /qr (lines 747-766): start a client when there is none
              IF ~Truthy(after.status) /\ clients[p] = NoClient
              THEN /\ Size(rest) < MaxTasks /\ CanConstruct(p)
                   /\ clients' = [clients EXCEPT ![p] = NewId(p)]
                   /\ live' = [live EXCEPT ![p] = @ \cup {NewId(p)}]
                   /\ tasks' = [tasks EXCEPT ![p] = Put(rest, [op |-> "startClient", pc |-> "initialize", c |-> NewId(p)])]
                   /\ UNCHANGED send
              ELSE /\ tasks' = [tasks EXCEPT ![p] = rest]
                   /\ UNCHANGED <<clients, live, send>>
         [] by = "send" ->
              \* /send (lines 817-832): 400, or wait for the end of the body
              /\ UNCHANGED <<clients, live>>
              /\ IF ~Truthy(after.status)
                 THEN /\ tasks' = [tasks EXCEPT ![p] = rest]
                      /\ send' = [send EXCEPT ![p] = Respond(400)]
                 ELSE /\ Size(rest) < MaxTasks
                      /\ tasks' = [tasks EXCEPT ![p] = Put(rest, [op |-> "send", pc |-> "body", c |-> NoClient])]
                      /\ send' = [send EXCEPT ![p] = [IdleSend EXCEPT !.pc = "body"]]

Callers == {"poll", "qr", "send"}

\* a request or the interval calls checkConnectionStatus(port) (lines 572-578)
B_checkConnectionStatus(p, by) ==
    /\ Quiet(p)
    /\ by = "send" => SendIdle(p)
    /\ IF clients[p] = NoClient
       THEN \* 'if (!client) return false'
            B_afterCheck(p, by, tasks[p],
                         [status |-> connectionStatus[p], qr |-> qrCodes[p],
                          attempts |-> reconnectAttempts[p], timers |-> timers[p]])
       ELSE /\ CanSuspend(p)
            /\ tasks' = [tasks EXCEPT ![p] = Put(@, [op |-> "check", pc |-> "getState", c |-> clients[p], by |-> by])]
            /\ send' = IF by = "send" THEN [send EXCEPT ![p] = [IdleSend EXCEPT !.pc = "check"]] ELSE send
            /\ UNCHANGED <<clients, live, qrCodes, connectionStatus, reconnectAttempts, lastState, timers>>

\* getState() settles and checkConnectionStatus returns to its caller
B_getState_settled(p, t, r) ==
    /\ Quiet(p)
    /\ t.op = "check" /\ t.by \in Callers
    /\ B_afterCheck(p, t.by, Take(tasks[p], t), B_checked(p, r))

\* GET /connect (lines 789-800)
B_connect(p) ==
    /\ Quiet(p)
    /\ IF clients[p] = NoClient
       THEN B_startClient(p)
       ELSE UNCHANGED <<clients, live, tasks>>
    /\ UNCHANGED <<qrCodes, connectionStatus, reconnectAttempts, lastState, timers, send>>

\* the listen callback (lines 899-900): startClient(3000); startClient(3001)
B_listen(p) ==
    /\ Quiet(p)
    /\ p \in AutoPorts
    /\ clients[p] = NoClient /\ connectionStatus[p] = "undefined" /\ tasks[p] = EmptyBag
    /\ B_startClient(p)
    /\ UNCHANGED <<qrCodes, connectionStatus, reconnectAttempts, lastState, timers, send>>

\* req.on('end') of /send (lines 832-849)
B_send_end(p, t, body) ==
    /\ Quiet(p)
    /\ t.op = "send" /\ t.pc = "body"
    /\ LET at == IF Truthy(connectionStatus[p]) THEN "connected" ELSE "disconnected"
           rest == Take(tasks[p], t)
       IN CASE body = "badjson" ->
                 /\ tasks' = [tasks EXCEPT ![p] = rest]
                 /\ send' = [send EXCEPT ![p] = [Respond(500) EXCEPT !.atEnd = at, !.body = body]]
            [] body = "missing" ->
                 /\ tasks' = [tasks EXCEPT ![p] = rest]
                 /\ send' = [send EXCEPT ![p] = [Respond(400) EXCEPT !.atEnd = at, !.body = body]]
            [] body = "ok" ->
                 IF clients[p] = NoClient
                 THEN \* clients[port] is undefined: TypeError, caught at line 861
                      /\ tasks' = [tasks EXCEPT ![p] = rest]
                      /\ send' = [send EXCEPT ![p] = [Respond(500) EXCEPT !.atEnd = at, !.body = body]]
                 ELSE /\ tasks' = [tasks EXCEPT ![p] = Put(rest, [op |-> "send", pc |-> "sendMessage", c |-> clients[p]])]
                      /\ send' = [send EXCEPT ![p] = [pc |-> "sending", code |-> 0, forwarded |-> TRUE, atEnd |-> at, body |-> body]]
    /\ UNCHANGED <<clients, live, qrCodes, connectionStatus, reconnectAttempts, lastState, timers>>

\* 'await clients[port].sendMessage(to, message)' settles (lines 849-868)
B_sendMessage_settled(p, t, ok) ==
    /\ Quiet(p)
    /\ t.op = "send" /\ t.pc = "sendMessage"
    /\ tasks' = [tasks EXCEPT ![p] = Take(@, t)]
    /\ send' = [send EXCEPT ![p] = [@ EXCEPT !.pc = "done", !.code = IF ok THEN 200 ELSE 500]]
    /\ UNCHANGED <<clients, live, qrCodes, connectionStatus, reconnectAttempts, lastState, timers>>

\* the maps are empty when the module is loaded
InitMaps ==
    /\ clients = [p \in AutoPorts |-> NoClient]
    /\ live = [p \in AutoPorts |-> {}]
    /\ qrCodes = [p \in AutoPorts |-> NoQR]
    /\ connectionStatus = [p \in AutoPorts |-> "undefined"]
    /\ reconnectAttempts = [p \in AutoPorts |-> 0]
    /\ lastState = [p \in AutoPorts |-> "UNKNOWN"]
    /\ timers = [p \in AutoPorts |-> EmptyBag]
    /\ tasks = [p \in AutoPorts |-> EmptyBag]
    /\ send = [p \in AutoPorts |-> IdleSend]
    /\ lastEvent = [p \in AutoPorts |-> "none"]
    /\ reply = [p \in AutoPorts |-> NoReply]
    /\ isInitializing = FALSE
    /\ clock = StartTime
    /\ lastGetStateAt = [p \in AutoPorts |-> 0]
    /\ lastCallAt = [p \in AutoPorts |-> 0]

\* a deployment that does not configure PUPPETEER_EXECUTABLE_PATH
Init == InitMaps /\ execPath = "unset"

\* a deployment that configures it, or whose setupPuppeteer() found a Chrome
\* (web-server.js lines 595-599, 616-620)
InitEnv == InitMaps /\ execPath = "set"

NextB ==
    \E p \in Ports :
        \/ B_listen(p)
        \/ B_connect(p)
        \/ \E t \in BagToSet(tasks[p]) : B_startClient_destroyed(p, t)
        \/ \E t \in BagToSet(tasks[p]) : B_initialize_resolved(p, t)
        \/ \E t \in BagToSet(tasks[p]) : B_initialize_rejected(p, t)
        \/ \E tm \in BagToSet(timers[p]) : B_timer(p, tm)
        \/ \E c \in ClientIds, qr \in QRs : B_qr(p, c, qr)
        \/ \E c \in ClientIds : B_ready(p, c)
        \/ \E c \in ClientIds : B_authenticated(p, c)
        \/ \E c \in ClientIds : B_disconnected(p, c)
        \/ \E c \in ClientIds : B_auth_failure(p, c)
        \/ \E by \in Callers : B_checkConnectionStatus(p, by)
        \/ \E t \in BagToSet(tasks[p]), r \in GetStateResults : B_getState_settled(p, t, r)
        \/ \E t \in BagToSet(tasks[p]), body \in Bodies : B_send_end(p, t, body)
        \/ \E t \in BagToSet(tasks[p]), ok \in BOOLEAN : B_sendMessage_settled(p, t, ok)

SpecB == Init /\ [][NextB]_vars

\* the rounds of the interval that wait for the getState() of the first port
IntervalRounds ==
    LET waiting == {t \in BagToSet(tasks[IntervalFirst]) : t.op = "check" /\ t.by = "interval"}
    IN Size([t \in waiting |-> CopiesIn(t, tasks[IntervalFirst])])

IntervalWaiting ==
    \E t \in BagToSet(tasks[IntervalFirst]) : t.op = "check" /\ t.by = "interval"

\* 'await checkConnectionStatus(3001)' of the interval callback (line 904): the
\* suspended functions of that port afterwards; the callback ends with the call
B_interval_second ==
    IF clients[IntervalSecond] = NoClient
    THEN tasks[IntervalSecond]
    ELSE Put(tasks[IntervalSecond],
             [op |-> "check", pc |-> "getState", c |-> clients[IntervalSecond], by |-> "poll"])

\* a round of setInterval (lines 902-905): checkConnectionStatus(3000) returns
\* false at once without a client, and the callback goes on to port 3001;
\* with a client it suspends on getState()
B_interval_round ==
    /\ Quiet(IntervalFirst)
    /\ IntervalRounds < MaxRounds
    /\ IF clients[IntervalFirst] = NoClient
       THEN /\ Size(B_interval_second) <= MaxTasks
            /\ tasks' = [tasks EXCEPT ![IntervalSecond] = B_interval_second]
       ELSE /\ CanSuspend(IntervalFirst)
            /\ tasks' = [tasks EXCEPT ![IntervalFirst] =
                            Put(@, [op |-> "check", pc |-> "getState",
                                    c |-> clients[IntervalFirst], by |-> "interval"])]
    /\ UNCHANGED <<clients, live, qrCodes, connectionStatus, reconnectAttempts, lastState, timers, send>>

\* getState() of the first port settles in a round of the interval:
\* checkConnectionStatus(3000) finishes (lines 578-602) and the callback calls
\* checkConnectionStatus(3001)
B_interval_next(t, r) ==
    /\ Quiet(IntervalFirst)
    /\ t.op = "check" /\ t.by = "interval"
    /\ LET after == B_checked(IntervalFirst, r)
       IN /\ qrCodes' = [qrCodes EXCEPT ![IntervalFirst] = after.qr]
          /\ connectionStatus' = [connectionStatus EXCEPT ![IntervalFirst] = after.status]
          /\ reconnectAttempts' = [reconnectAttempts EXCEPT ![IntervalFirst] = after.attempts]
          /\ timers' = [timers EXCEPT ![IntervalFirst] = after.timers]
          /\ Size(after.timers) <= MaxTimers
    /\ Size(B_interval_second) <= MaxTasks
    /\ tasks' = [tasks EXCEPT ![IntervalFirst] = Take(@, t),
                              ![IntervalSecond] = B_interval_second]
    /\ UNCHANGED <<clients, live, lastState, send>>

\* both channels of the backoff server with the interval of the listen
\* callback. Port 3000 starts, gets ready, and answers CONNECTED when its
\* getState() answers at all; port 3001 loses its connection and reconnects.
\* The interval comes round, timers fire, destroy() and the getState() of port
\* 3001 settle; nothing makes the getState() of port 3000 settle
NextB2 ==
    \/ \E p \in AutoPorts :
          \/ B_listen(p)
          \/ \E t \in BagToSet(tasks[p]) : B_initialize_resolved(p, t)
          \/ \E c \in ClientIds : B_ready(p, c)
    \/ B_interval_round
    \/ \E t \in BagToSet(tasks[IntervalFirst]) : B_interval_next(t, "CONNECTED")
    \/ \E t \in BagToSet(tasks[IntervalSecond]), r \in GetStateResults :
          B_getState_settled(IntervalSecond, t, r)
    \/ \E tm \in BagToSet(timers[IntervalSecond]) : B_timer(IntervalSecond, tm)
    \/ \E t \in BagToSet(tasks[IntervalSecond]) : B_startClient_destroyed(IntervalSecond, t)

SpecB2 ==
    /\ Init /\ [][NextB2]_vars
    /\ WF_vars(B_interval_round)
    /\ WF_vars(\E tm \in BagToSet(timers[IntervalSecond]) : B_timer(IntervalSecond, tm))
    /\ WF_vars(\E t \in BagToSet(tasks[IntervalSecond]) : B_startClient_destroyed(IntervalSecond, t))
    /\ WF_vars(\E t \in BagToSet(tasks[IntervalSecond]), r \in GetStateResults :
                  B_getState_settled(IntervalSecond, t, r))

\* the backoff server with a client that initializes and is never reported
\* disconnected: the listen callback, the status checks of /health, /status and
\* the interval, whose getState() resolves to CONNECTED or rejects, and what
\* follows from them; the only scheduleReconnect call left is the one of a
\* status check
CheckResults == {"CONNECTED", "reject"}

NextBF ==
    \E p \in Ports :
        \/ B_listen(p)
        \/ \E t \in BagToSet(tasks[p]) : B_initialize_resolved(p, t)
        \/ \E c \in ClientIds, qr \in QRs : B_qr(p, c, qr)
        \/ \E c \in ClientIds : B_ready(p, c)
        \/ \E c \in ClientIds : B_authenticated(p, c)
        \/ B_checkConnectionStatus(p, "poll")
        \/ \E t \in BagToSet(tasks[p]), r \in CheckResults : B_getState_settled(p, t, r)
        \/ \E tm \in BagToSet(timers[p]) : B_timer(p, tm)
        \/ \E t \in BagToSet(tasks[p]) : B_startClient_destroyed(p, t)

SpecBF == Init /\ [][NextBF]_vars

----------------------------------------------------------------------------
(* First server of src/web-server.js, lines 1-439 *)

\* startClient (lines 65-135) up to 'await clients[porta].initialize()'
W_startClient(p) ==
    IF clients[p] # NoClient
    THEN UNCHANGED <<clients, live, tasks>>
    ELSE /\ CanSuspend(p) /\ CanConstruct(p)
         /\ clients' = [clients EXCEPT ![p] = NewId(p)]
         /\ live' = [live EXCEPT ![p] = @ \cup {NewId(p)}]
         /\ tasks' = [tasks EXCEPT ![p] = Put(@, [op |-> "startClient", pc |-> "initialize", c |-> NewId(p)])]

\* initialize() resolves: startClient returns
W_initialize_resolved(p, t) ==
    /\ Quiet(p)
    /\ t.op = "startClient" /\ t.pc = "initialize"
    /\ tasks' = [tasks EXCEPT ![p] = Take(@, t)]
    /\ UNCHANGED <<clients, live, qrCodes, connectionStatus, reconnectAttempts, lastState, timers, send>>

\* initialize() rejects: the catch block (lines 136-140)
W_initialize_rejected(p, t) ==
    /\ Quiet(p)
    /\ t.op = "startClient" /\ t.pc = "initialize"
    /\ tasks' = [tasks EXCEPT ![p] = Take(@, t)]
    /\ connectionStatus' = [connectionStatus EXCEPT ![p] = "false"]
    /\ clients' = [clients EXCEPT ![p] = NoClient]
    /\ UNCHANGED <<live, qrCodes, reconnectAttempts, lastState, timers, send>>

\* clients[porta].on('qr') (lines 103-107)
W_qr(p, c, qr) ==
    /\ Emitted(p, "qr")
    /\ c \in live[p]
    /\ qrCodes' = [qrCodes EXCEPT ![p] = qr]
    /\ connectionStatus' = [connectionStatus EXCEPT ![p] = "false"]
    /\ UNCHANGED <<clients, live, reconnectAttempts, lastState, timers, tasks, send>>

\* clients[porta].on('ready') (lines 109-113)
W_ready(p, c) ==
    /\ Emitted(p, "ready")
    /\ c \in live[p]
    /\ connectionStatus' = [connectionStatus EXCEPT ![p] = "true"]
    /\ qrCodes' = [qrCodes EXCEPT ![p] = NoQR]
    /\ UNCHANGED <<clients, live, reconnectAttempts, lastState, timers, tasks, send>>

\* clients[porta].on('authenticated') (lines 115-119)
W_authenticated(p, c) ==
    /\ Emitted(p, "authenticated")
    /\ c \in live[p]
    /\ connectionStatus' = [connectionStatus EXCEPT ![p] = "true"]
    /\ qrCodes' = [qrCodes EXCEPT ![p] = NoQR]
    /\ UNCHANGED <<clients, live, reconnectAttempts, lastState, timers, tasks, send>>

\* clients[porta].on('disconnected') (lines 121-126)
W_disconnected(p, c) ==
    /\ Emitted(p, "disconnected")
    /\ c \in live[p]
    /\ connectionStatus' = [connectionStatus EXCEPT ![p] = "false"]
    /\ qrCodes' = [qrCodes EXCEPT ![p] = NoQR]
    /\ clients' = [clients EXCEPT ![p] = NoClient]
    /\ UNCHANGED <<live, reconnectAttempts, lastState, timers, tasks, send>>

\* clients[porta].on('auth_failure') (lines 128-133)
W_auth_failure(p, c) ==
    /\ Emitted(p, "auth_failure")
    /\ c \in live[p]
    /\ connectionStatus' = [connectionStatus EXCEPT ![p] = "false"]
    /\ qrCodes' = [qrCodes EXCEPT ![p] = NoQR]
    /\ clients' = [clients EXCEPT ![p] = NoClient]
    /\ UNCHANGED <<live, reconnectAttempts, lastState, timers, tasks, send>>

\* checkConnectionStatus after getState().catch(() => null) settled (lines 149-152)
W_checked(p, r) ==
    [status |-> IF r = "CONNECTED" THEN "true" ELSE "false", qr |-> qrCodes[p]]

\* the body of the answer of GET /qr (lines 216-219)
W_qr_response(qr) == [route |-> "qr", qr |-> IF qr # NoQR THEN qr ELSE Placeholder]

\* checkConnectionStatus(porta) is called (lines 146-149) by /health, /status or the
\* interval ("poll"), by /send, or by a GET /qr that starts no client (line 215);
\* without a client it returns false at once: /qr answers, /send answers 400
W_checkConnectionStatus(p, by) ==
    /\ by = "send" => SendIdle(p)
    /\ by = "qr" => ~(~Truthy(connectionStatus[p]) /\ clients[p] = NoClient)
    /\ IF by = "qr" /\ clients[p] = NoClient
       THEN Answered(p, W_qr_response(qrCodes[p]))
       ELSE Quiet(p)
    /\ IF clients[p] = NoClient
       THEN /\ send' = IF by = "send" THEN [send EXCEPT ![p] = Respond(400)] ELSE send
            /\ UNCHANGED tasks
       ELSE /\ CanSuspend(p)
            /\ tasks' = [tasks EXCEPT ![p] = Put(@, [op |-> "check", pc |-> "getState", c |-> clients[p], by |-> by])]
            /\ send' = IF by = "send" THEN [send EXCEPT ![p] = [IdleSend EXCEPT !.pc = "check"]] ELSE send
    /\ UNCHANGED <<clients, live, qrCodes, connectionStatus, reconnectAttempts, lastState, timers>>

\* getState() settles; the caller goes on: /health, /status, /test, /qr and the
\* interval answer or end, /send answers 400 or waits for its body (lines 291-305)
W_getState_settled(p, t, r) ==
    /\ t.op = "check"
    /\ LET after == W_checked(p, r)
           rest  == Take(tasks[p], t)
       IN /\ IF t.by = "qr" THEN Answered(p, W_qr_response(after.qr)) ELSE Quiet(p)
          /\ connectionStatus' = [connectionStatus EXCEPT ![p] = after.status]
          /\ qrCodes' = [qrCodes EXCEPT ![p] = after.qr]
          /\ IF t.by = "send"
             THEN IF ~Truthy(after.status)
                  THEN /\ tasks' = [tasks EXCEPT ![p] = rest]
                       /\ send' = [send EXCEPT ![p] = Respond(400)]
                  ELSE /\ tasks' = [tasks EXCEPT ![p] = Put(rest, [op |-> "send", pc |-> "body", c |-> NoClient])]
                       /\ send' = [send EXCEPT ![p] = [IdleSend EXCEPT !.pc = "body"]]
             ELSE /\ tasks' = [tasks EXCEPT ![p] = rest]
                  /\ UNCHANGED send
    /\ UNCHANGED <<clients, live, reconnectAttempts, lastState, timers>>

\* GET /connect (lines 261-262), and startClient(3000); startClient(3001) of the
\* listen callback (lines 430-431)
W_connect(p) ==
    /\ Quiet(p)
    /\ W_startClient(p)
    /\ UNCHANGED <<qrCodes, connectionStatus, reconnectAttempts, lastState, timers, send>>

\* the /qr handler after its loop (line 215): checkConnectionStatus(porta), and
\* the answer at once when the port has no client by then; `base` holds the
\* suspended functions without the handler
W_qr_checking(p, base) ==
    IF clients'[p] = NoClient
    THEN /\ Answered(p, W_qr_response(qrCodes[p]))
         /\ tasks' = [tasks EXCEPT ![p] = base]
    ELSE /\ Quiet(p)
         /\ tasks' = [tasks EXCEPT ![p] = Put(base, [op |-> "check", pc |-> "getState", c |-> clients'[p], by |-> "qr"])]

\* GET /qr for a port without client that is not connected (lines 200-213):
\* startClient(porta), then the loop test; the handler sleeps 1 s when no QR is stored
W_qr_request(p) ==
    /\ ~Truthy(connectionStatus[p]) /\ clients[p] = NoClient
    /\ Size(tasks[p]) + 1 < MaxTasks /\ CanConstruct(p)
    /\ clients' = [clients EXCEPT ![p] = NewId(p)]
    /\ live' = [live EXCEPT ![p] = @ \cup {NewId(p)}]
    /\ LET started == Put(tasks[p], [op |-> "startClient", pc |-> "initialize", c |-> NewId(p)])
       IN IF qrCodes[p] = NoQR /\ 0 < MaxQrPolls
          THEN /\ Quiet(p)
               /\ tasks' = [tasks EXCEPT ![p] = Put(started, [op |-> "qr", pc |-> "poll", c |-> NoClient, n |-> 0])]
          ELSE W_qr_checking(p, started)
    /\ UNCHANGED <<qrCodes, connectionStatus, reconnectAttempts, lastState, timers, send>>

\* mutant: the loop of /qr without the bound on attempts
W_qr_polled_unbounded(p, t) ==
    /\ t.op = "qr" /\ t.pc = "poll"
    /\ UNCHANGED <<clients, live, qrCodes, connectionStatus, reconnectAttempts, lastState, timers, send>>
    /\ LET rest == Take(tasks[p], t)
       IN IF qrCodes[p] = NoQR
          THEN /\ Quiet(p)
               /\ tasks' = [tasks EXCEPT ![p] = Put(rest, [t EXCEPT !.n = @ + 1])]
          ELSE W_qr_checking(p, rest)

\* the 1 s sleep of the loop of /qr ends (lines 208-212): attempts++, then the
\* loop test; the handler sleeps again or goes on to line 215
W_qr_polled(p, t) ==
    /\ t.op = "qr" /\ t.pc = "poll"
    /\ UNCHANGED <<clients, live, qrCodes, connectionStatus, reconnectAttempts, lastState, timers, send>>
    /\ LET rest == Take(tasks[p], t)
       IN IF qrCodes[p] = NoQR /\ t.n + 1 < MaxQrPolls
          THEN /\ Quiet(p)
               /\ tasks' = [tasks EXCEPT ![p] = Put(rest, [t EXCEPT !.n = @ + 1])]
          ELSE W_qr_checking(p, rest)

\* req.on('end') of /send (lines 305-320)
W_send_end(p, t, body) ==
    /\ Quiet(p)
    /\ t.op = "send" /\ t.pc = "body"
    /\ LET at == IF Truthy(connectionStatus[p]) THEN "connected" ELSE "disconnected"
           rest == Take(tasks[p], t)
       IN CASE body = "badjson" ->
                 /\ tasks' = [tasks EXCEPT ![p] = rest]
                 /\ send' = [send EXCEPT ![p] = [Respond(500) EXCEPT !.atEnd = at, !.body = body]]
            [] body = "missing" ->
                 /\ tasks' = [tasks EXCEPT ![p] = rest]
                 /\ send' = [send EXCEPT ![p] = [Respond(400) EXCEPT !.atEnd = at, !.body = body]]
            [] body = "ok" ->
                 IF clients[p] = NoClient
                 THEN \* clients[porta] is undefined: TypeError, caught at line 331
                      /\ tasks' = [tasks EXCEPT ![p] = rest]
                      /\ send' = [send EXCEPT ![p] = [Respond(500) EXCEPT !.atEnd = at, !.body = body]]
                 ELSE /\ tasks' = [tasks EXCEPT ![p] = Put(rest, [op |-> "send", pc |-> "sendMessage", c |-> clients[p]])]
                      /\ send' = [send EXCEPT ![p] = [pc |-> "sending", code |-> 0, forwarded |-> TRUE, atEnd |-> at, body |-> body]]
    /\ UNCHANGED <<clients, live, qrCodes, connectionStatus, reconnectAttempts, lastState, timers>>

\* the id of the Message a resolved sendMessage returns, and no id at all
MessageId == "3EB0A1"
NoId == "none"

\* what /send of the first server answers once sendMessage has settled with a
\* Message of id `id` or with an error (lines 320-339): the value of the await
\* of line 320 is not kept, and the JSON of lines 323-330 has no field for it
W_send_response(ok, id) ==
    IF ok
    THEN [route |-> "send", code |-> 200, success |-> TRUE, id |-> NoId]
    ELSE [route |-> "send", code |-> 500, success |-> FALSE, id |-> NoId]

\* 'await clients[porta].sendMessage(to, message)' settles (lines 320-339)
W_sendMessage_settled(p, t, ok) ==
    /\ Answered(p, W_send_response(ok, MessageId))
    /\ t.op = "send" /\ t.pc = "sendMessage"
    /\ tasks' = [tasks EXCEPT ![p] = Take(@, t)]
    /\ send' = [send EXCEPT ![p] = [@ EXCEPT !.pc = "done", !.code = W_send_response(ok, MessageId).code]]
    /\ UNCHANGED <<clients, live, qrCodes, connectionStatus, reconnectAttempts, lastState, timers>>

NextW ==
    \E p \in Ports :
        \/ W_connect(p)
        \/ W_qr_request(p)
        \/ \E t \in BagToSet(tasks[p]) : W_qr_polled(p, t)
        \/ \E t \in BagToSet(tasks[p]) : W_initialize_resolved(p, t)
        \/ \E t \in BagToSet(tasks[p]) : W_initialize_rejected(p, t)
        \/ \E c \in ClientIds, qr \in QRs : W_qr(p, c, qr)
        \/ \E c \in ClientIds : W_ready(p, c)
        \/ \E c \in ClientIds : W_authenticated(p, c)
        \/ \E c \in ClientIds : W_disconnected(p, c)
        \/ \E c \in ClientIds : W_auth_failure(p, c)
        \/ \E by \in Callers : W_checkConnectionStatus(p, by)
        \/ \E t \in BagToSet(tasks[p]), r \in GetStateResults : W_getState_settled(p, t, r)
        \/ \E t \in BagToSet(tasks[p]), body \in Bodies : W_send_end(p, t, body)
        \/ \E t \in BagToSet(tasks[p]), ok \in BOOLEAN : W_sendMessage_settled(p, t, ok)

SpecW == Init /\ [][NextW]_vars

----------------------------------------------------------------------------
(* Express server of src/web-server.js, lines 441-1159 *)

\* who called startClient: the listen callback, its critical-error branch, its 5 s retry,
\* the 5 s restart of a 'disconnected' handler, its 10 s retry, the restart of a
\* fallback client's handler, GET /connect, GET /qr or /qr.png; the handler of a
\* request answers when the startClient call it awaits has settled
X_Callers == {"listen", "critical", "listenRetry", "restart", "retry", "fbrestart", "request"}

\* fallback clients take the identities above MaxClients: the handlers a client
\* carries are fixed when it is built (lines 788-856)
Fallback(c) == c > MaxClients
X_ClientIds == 1..(2 * MaxClients)
X_Free(p, base, fb) ==
    IF Cardinality(live[p] \cup {u.c : u \in BagToSet(base)}) >= MaxClients THEN {}
    ELSE {i \in X_ClientIds : /\ Fallback(i) = fb
                              /\ i \notin live[p]
                              /\ i \notin {u.c : u \in BagToSet(base)}}

\* errors of initialize(): a Chrome-path error (lines 773-776) or any other
InitErrors == {"chrome", "other"}

\* values of the 'change_state' event
ChangeStates == {"CONNECTED", "OPENING"}

\* startClient(porta, chromePath) settles for its caller (lines 712-720, 1139-1147):
\* the timers of the port afterwards
X_settled(ts, by, ok) ==
    IF ok THEN ts
    ELSE CASE by = "listen"  -> Put(ts, [delay |-> restartDelay, kind |-> "listenRetry"])
           [] by = "restart" -> Put(ts, [delay |-> retryDelay, kind |-> "retry"])
           [] OTHER -> ts

\* room for the timer a failing startClient would make its caller add
X_CanSettle(p, by, ok) ==
    (~ok /\ by \in {"listen", "restart"}) => Size(timers[p]) < MaxTimers

\* startClient up to 'await client.initialize()' (lines 738-753); `base` holds the
\* suspended functions without the caller
X_startClient(p, by, base) ==
    IF clients[p] # NoClient
    THEN \* 'Cliente ja existe': the existing client is returned
         /\ tasks' = [tasks EXCEPT ![p] = base]
         /\ UNCHANGED <<clients, live, connectionStatus, qrCodes>>
    ELSE LET free == X_Free(p, base, FALSE)
             new  == CHOOSE i \in free : \A j \in free : i <= j
         IN /\ free # {} /\ Size(base) < MaxTasks
            /\ clients' = [clients EXCEPT ![p] = new]
            /\ live' = [live EXCEPT ![p] = @ \cup {new}]
            /\ connectionStatus' = [connectionStatus EXCEPT ![p] = "false"]
            /\ qrCodes' = [qrCodes EXCEPT ![p] = NoQR]
            /\ tasks' = [tasks EXCEPT ![p] = Put(base, [op |-> "startClient", pc |-> "initialize",
                                                       c |-> new, by |-> by, fb |-> FALSE])]

\* the listen callback starts the channel (lines 1137-1148), or does so after a
\* critical error of the set-up (lines 1149-1157)
X_listen(p, by) ==
    /\ Quiet(p)
    /\ by \in {"listen", "critical"}
    /\ p \in AutoPorts /\ connectionStatus[p] = "undefined" /\ clients[p] = NoClient
    /\ X_startClient(p, by, tasks[p])
    /\ UNCHANGED <<reconnectAttempts, lastState, timers, send>>

\* mutant: GET /connect calls startClient without awaiting it
X_request_detached(p, by) ==
    /\ Quiet(p)
    /\ by = "request"
    /\ X_startClient(p, "critical", tasks[p])
    /\ UNCHANGED <<reconnectAttempts, lastState, timers, send>>

\* GET /connect (lines 949-965), GET /qr and /qr.png (lines 967-975) up to
\* 'await startClient(porta, resolveChromePath())'
X_request(p, by) ==
    /\ Quiet(p)
    /\ by = "request"
    /\ X_startClient(p, by, tasks[p])
    /\ UNCHANGED <<reconnectAttempts, lastState, timers, send>>

\* a setTimeout callback calls startClient (lines 710-721, 844-847, 1141-1146)
X_timer(p, tm) ==
    /\ Quiet(p)
    /\ tm.kind \in {"restart", "retry", "listenRetry", "fbrestart"}
    /\ timers' = [timers EXCEPT ![p] = Take(@, tm)]
    /\ X_startClient(p, tm.kind, tasks[p])
    /\ UNCHANGED <<reconnectAttempts, lastState, send>>

\* 'await client.initialize()' resolves: startClient goes on to getState (lines
\* 753-757); a fallback client is returned at once (lines 858-860)
X_initialize_resolved(p, t) ==
    /\ Quiet(p)
    /\ t.op = "startClient" /\ t.pc = "initialize"
    /\ tasks' = [tasks EXCEPT ![p] =
                    IF t.fb THEN Take(@, t) ELSE Put(Take(@, t), [t EXCEPT !.pc = "getState"])]
    /\ UNCHANGED <<clients, live, qrCodes, connectionStatus, reconnectAttempts, lastState, timers, send>>

\* the 'guard rail' getState() of startClient settles (lines 756-766)
X_startClient_getState(p, t, r) ==
    /\ Quiet(p)
    /\ t.op = "startClient" /\ t.pc = "getState"
    /\ tasks' = [tasks EXCEPT ![p] = Take(@, t)]
    /\ IF r = "reject"
       THEN /\ lastState' = [lastState EXCEPT ![p] = "UNKNOWN"]
            /\ UNCHANGED connectionStatus
       ELSE /\ lastState' = [lastState EXCEPT ![p] = IF r = "null" THEN "UNKNOWN" ELSE r]
            /\ connectionStatus' = [connectionStatus EXCEPT ![p] = IF r = "CONNECTED" THEN "true" ELSE "false"]
    /\ UNCHANGED <<clients, live, qrCodes, reconnectAttempts, timers, send>>

\* 'await client.initialize()' rejects: the catch block (lines 768-873)
X_initialize_rejected(p, t, err) ==
    /\ Step(p, "none", NoReply)
    /\ UNCHANGED isInitializing
    /\ t.op = "startClient" /\ t.pc = "initialize"
    /\ LET rest == Take(tasks[p], t)
       IN IF err = "chrome" /\ ~t.fb
          THEN \* delete process.env.PUPPETEER_EXECUTABLE_PATH; clients.delete(porta);
               \* new Client(...); clients.set(porta, fallbackClient)
               LET free == X_Free(p, rest, TRUE)
                   new  == CHOOSE i \in free : \A j \in free : i <= j
               IN /\ free # {}
                  /\ clients' = [clients EXCEPT ![p] = new]
                  /\ live' = [live EXCEPT ![p] = @ \cup {new}]
                  /\ connectionStatus' = [connectionStatus EXCEPT ![p] = "false"]
                  /\ qrCodes' = [qrCodes EXCEPT ![p] = NoQR]
                  /\ tasks' = [tasks EXCEPT ![p] = Put(rest, [t EXCEPT !.c = new, !.fb = TRUE])]
                  /\ execPath' = "unset"
                  /\ UNCHANGED timers
          ELSE \* connectionStatus.set(porta, false); clients.delete(porta); throw
               /\ X_CanSettle(p, t.by, FALSE)
               /\ connectionStatus' = [connectionStatus EXCEPT ![p] = "false"]
               /\ clients' = [clients EXCEPT ![p] = NoClient]
               /\ tasks' = [tasks EXCEPT ![p] = rest]
               /\ timers' = [timers EXCEPT ![p] = X_settled(@, t.by, FALSE)]
               /\ UNCHANGED <<live, qrCodes, execPath>>
    /\ UNCHANGED <<reconnectAttempts, lastState, send>>

\* client.on('qr') (lines 685-688, 826-829)
X_qr(p, c, qr) ==
    /\ Quiet(p)
    /\ c \in live[p]
    /\ qrCodes' = [qrCodes EXCEPT ![p] = qr]
    /\ UNCHANGED <<clients, live, connectionStatus, reconnectAttempts, lastState, timers, tasks, send>>

\* client.on('authenticated') only logs (lines 690-692)
X_authenticated(p, c) ==
    /\ Quiet(p)
    /\ c \in live[p]
    /\ UNCHANGED <<clients, live, qrCodes, connectionStatus, reconnectAttempts, lastState, timers, tasks, send>>

\* client.on('ready') (lines 694-698)
X_ready(p, c) ==
    /\ Quiet(p)
    /\ c \in live[p]
    /\ connectionStatus' = [connectionStatus EXCEPT ![p] = "true"]
    /\ qrCodes' = [qrCodes EXCEPT ![p] = NoQR]
    /\ UNCHANGED <<clients, live, reconnectAttempts, lastState, timers, tasks, send>>

\* client.on('change_state') (lines 724-727)
X_change_state(p, c, st) ==
    /\ Quiet(p)
    /\ c \in live[p]
    /\ lastState' = [lastState EXCEPT ![p] = st]
    /\ UNCHANGED <<clients, live, qrCodes, connectionStatus, reconnectAttempts, timers, tasks, send>>

\* client.on('auth_failure') (lines 729-732)
X_auth_failure(p, c) ==
    /\ Quiet(p)
    /\ c \in live[p]
    /\ connectionStatus' = [connectionStatus EXCEPT ![p] = "false"]
    /\ UNCHANGED <<clients, live, qrCodes, reconnectAttempts, lastState, timers, tasks, send>>

\* client.on('disconnected') up to 'await client.destroy()' (lines 700-704, 838-842)
X_disconnected(p, c) ==
    /\ Quiet(p)
    /\ c \in live[p]
    /\ CanSuspend(p)
    /\ connectionStatus' = [connectionStatus EXCEPT ![p] = "false"]
    /\ qrCodes' = [qrCodes EXCEPT ![p] = NoQR]
    /\ live' = [live EXCEPT ![p] = @ \ {c}]
    /\ tasks' = [tasks EXCEPT ![p] = Put(@, [op |-> "disconnected", pc |-> "destroy", c |-> c])]
    /\ UNCHANGED <<clients, reconnectAttempts, lastState, timers, send>>

\* the 'disconnected' handler resumes after destroy() (lines 707-721, 843-847)
X_disconnected_destroyed(p, t) ==
    /\ Quiet(p)
    /\ t.op = "disconnected" /\ t.pc = "destroy"
    /\ Size(timers[p]) < MaxTimers
    /\ clients' = [clients EXCEPT ![p] = NoClient]
    /\ tasks' = [tasks EXCEPT ![p] = Take(@, t)]
    /\ timers' = [timers EXCEPT ![p] = Put(@, [delay |-> restartDelay,
                                               kind |-> IF Fallback(t.c) THEN "fbrestart" ELSE "restart"])]
    /\ UNCHANGED <<live, qrCodes, connectionStatus, reconnectAttempts, lastState, send>>

\* GET /status up to 'await client.getState()' (lines 922-928)
X_status(p) ==
    /\ Quiet(p)
    /\ clients[p] # NoClient /\ CanSuspend(p)
    /\ tasks' = [tasks EXCEPT ![p] = Put(@, [op |-> "status", pc |-> "getState", c |-> clients[p]])]
    /\ UNCHANGED <<clients, live, qrCodes, connectionStatus, reconnectAttempts, lastState, timers, send>>

\* GET /status after getState() (lines 928-942)
X_status_getState(p, t, r) ==
    /\ Quiet(p)
    /\ t.op = "status"
    /\ tasks' = [tasks EXCEPT ![p] = Take(@, t)]
    /\ IF r = "reject"
       THEN UNCHANGED <<lastState, connectionStatus>>
       ELSE /\ lastState' = [lastState EXCEPT ![p] = IF r = "null" THEN "UNKNOWN" ELSE r]
            /\ connectionStatus' = [connectionStatus EXCEPT ![p] = IF r = "CONNECTED" THEN "true" ELSE "false"]
    /\ UNCHANGED <<clients, live, qrCodes, reconnectAttempts, timers, send>>

\* POST /send up to 'await client.sendMessage' (lines 1017-1039)
X_send(p, body) ==
    /\ Quiet(p)
    /\ SendIdle(p)
    /\ IF body # "ok" \/ clients[p] = NoClient \/ ~Truthy(connectionStatus[p])
       THEN /\ send' = [send EXCEPT ![p] = Respond(400)]
            /\ UNCHANGED tasks
       ELSE /\ CanSuspend(p)
            /\ tasks' = [tasks EXCEPT ![p] = Put(@, [op |-> "send", pc |-> "sendMessage", c |-> clients[p]])]
            /\ send' = [send EXCEPT ![p] = [IdleSend EXCEPT !.pc = "sending", !.forwarded = TRUE]]
    /\ UNCHANGED <<clients, live, qrCodes, connectionStatus, reconnectAttempts, lastState, timers>>

\* the message of the error a rejected sendMessage carries
SendError == "Evaluation failed"

\* what POST /send answers once sendMessage(to, text) has settled (lines
\* 1039-1053): the JSON of line 1046, or HTTP 500 with the message of the
\* error behind a fixed prefix (lines 1041-1043)
X_send_response(ok) ==
    IF ok
    THEN [code |-> 200, success |-> TRUE, error |-> <<>>]
    ELSE [code |-> 500, success |-> FALSE, error |-> <<"Erro ao enviar texto: ", SendError>>]

\* mutant: a rejected sendMessage marks the port as not connected
X_sendMessage_settled_marking(p, t, ok) ==
    /\ Quiet(p)
    /\ t.op = "send" /\ t.pc = "sendMessage"
    /\ tasks' = [tasks EXCEPT ![p] = Take(@, t)]
    /\ send' = [send EXCEPT ![p] = [@ EXCEPT !.pc = "done", !.code = X_send_response(ok).code]]
    /\ connectionStatus' = [connectionStatus EXCEPT ![p] = IF ok THEN @ ELSE "false"]
    /\ UNCHANGED <<clients, live, qrCodes, reconnectAttempts, lastState, timers>>

\* POST /send after sendMessage settled (lines 1039-1053)
X_sendMessage_settled(p, t, ok) ==
    /\ Quiet(p)
    /\ t.op = "send" /\ t.pc = "sendMessage"
    /\ tasks' = [tasks EXCEPT ![p] = Take(@, t)]
    /\ send' = [send EXCEPT ![p] = [@ EXCEPT !.pc = "done", !.code = X_send_response(ok).code]]
    /\ UNCHANGED <<clients, live, qrCodes, connectionStatus, reconnectAttempts, lastState, timers>>

NextX ==
    \E p \in Ports :
        \/ \E by \in X_Callers : X_listen(p, by)
        \/ \E by \in X_Callers : X_request(p, by)
        \/ \E tm \in BagToSet(timers[p]) : X_timer(p, tm)
        \/ \E t \in BagToSet(tasks[p]) : X_initialize_resolved(p, t)
        \/ \E t \in BagToSet(tasks[p]), r \in GetStateResults : X_startClient_getState(p, t, r)
        \/ \E t \in BagToSet(tasks[p]), err \in InitErrors : X_initialize_rejected(p, t, err)
        \/ \E c \in X_ClientIds, qr \in QRs : X_qr(p, c, qr)
        \/ \E c \in X_ClientIds : X_authenticated(p, c)
        \/ \E c \in X_ClientIds : X_ready(p, c)
        \/ \E c \in X_ClientIds, st \in ChangeStates : X_change_state(p, c, st)
        \/ \E c \in X_ClientIds : X_auth_failure(p, c)
        \/ \E c \in X_ClientIds : X_disconnected(p, c)
        \/ \E t \in BagToSet(tasks[p]) : X_disconnected_destroyed(p, t)
        \/ X_status(p)
        \/ \E t \in BagToSet(tasks[p]), r \in GetStateResults : X_status_getState(p, t, r)
        \/ \E body \in Bodies : X_send(p, body)
        \/ \E t \in BagToSet(tasks[p]), ok \in BOOLEAN : X_sendMessage_settled(p, t, ok)

SpecX == Init /\ [][NextX]_vars

\* what a Chrome launch takes its executable from: resolveChromePath() puts
\* PUPPETEER_EXECUTABLE_PATH first (lines 528-534), and a client built without
\* executablePath (lines 660-674, 788) leaves the choice to Puppeteer, which
\* reads the same variable
LaunchExecutable == IF execPath = "set" THEN "PUPPETEER_EXECUTABLE_PATH" ELSE "default"

\* both channels of the Express server, from the listen callback to the first
\* 'ready', with PUPPETEER_EXECUTABLE_PATH configured
NextX2 ==
    \E p \in AutoPorts :
        \/ X_listen(p, "listen")
        \/ \E tm \in BagToSet(timers[p]) : X_timer(p, tm)
        \/ \E t \in BagToSet(tasks[p]) : X_initialize_resolved(p, t)
        \/ \E t \in BagToSet(tasks[p]), r \in GetStateResults : X_startClient_getState(p, t, r)
        \/ \E t \in BagToSet(tasks[p]), err \in InitErrors : X_initialize_rejected(p, t, err)
        \/ \E c \in X_ClientIds, qr \in QRs : X_qr(p, c, qr)
        \/ \E c \in X_ClientIds : X_ready(p, c)

SpecX2 == InitEnv /\ [][NextX2]_vars

----------------------------------------------------------------------------
(* Server of src/unnamed/part_004 *)

\* who called startClient: the listen callback, its critical-error branch, its
\* 5 s retry, the 5 s restart of a 'disconnected' handler, its 10 s retry, or a
\* request (GET /connect, /qr, /qr.png, /logout, /session/reset), whose
\* continuations touch no map
P_Callers == {"listen", "critical", "listenRetry", "restart", "retry", "request", "qr"}

\* startClient(porta, chromePath) settles for its caller (lines 219-226, 519-522):
\* the timers of the port afterwards
P_settled(ts, by, ok) ==
    IF ok THEN ts
    ELSE CASE by = "listen"  -> Put(ts, [delay |-> restartDelay, kind |-> "listenRetry"])
           [] by = "restart" -> Put(ts, [delay |-> retryDelay, kind |-> "retry"])
           [] OTHER -> ts

\* room for the timer a failing startClient would make its caller add
P_CanSettle(p, by, ok) ==
    (~ok /\ by \in {"listen", "restart"}) => Size(timers[p]) < MaxTimers

\* identities no client object in use carries
P_Free(p, base) ==
    {i \in ClientIds : /\ i \notin live[p]
                       /\ i # clients[p]
                       /\ i \notin {u.c : u \in BagToSet(base)}}

\* the caller of a startClient call that settled goes on: GET /qr and /qr.png
\* swallow a failure and enter waitQR (lines 364-376, 394-397), where the handler
\* sleeps unless a QR is stored; the other callers hold no further await
P_resumed(rest, p, by) ==
    IF by = "qr" /\ qrCodes[p] = NoQR
    THEN Put(rest, [op |-> "qr", pc |-> "waitQR", c |-> NoClient])
    ELSE rest

\* startClient up to 'await client.initialize()' (lines 244-257); `base` holds the
\* suspended functions without the caller
P_startClient(p, by, base) ==
    IF clients[p] # NoClient
    THEN \* 'Cliente ja existe': the existing client is returned
         /\ tasks' = [tasks EXCEPT ![p] = base]
         /\ UNCHANGED <<clients, live, connectionStatus, qrCodes>>
    ELSE LET free == P_Free(p, base)
             new  == CHOOSE i \in free : \A j \in free : i <= j
         IN /\ free # {} /\ Size(base) < MaxTasks
            /\ clients' = [clients EXCEPT ![p] = new]
            /\ live' = [live EXCEPT ![p] = @ \cup {new}]
            /\ connectionStatus' = [connectionStatus EXCEPT ![p] = "false"]
            /\ qrCodes' = [qrCodes EXCEPT ![p] = NoQR]
            /\ tasks' = [tasks EXCEPT ![p] = Put(base, [op |-> "startClient", pc |-> "initialize",
                                                       c |-> new, by |-> by, fb |-> FALSE])]

\* the listen callback starts the channel (lines 518-523), or does so after a
\* critical error of the set-up (lines 525-528)
P_listen(p, by) ==
    /\ Quiet(p)
    /\ by \in {"listen", "critical"}
    /\ p \in AutoPorts /\ connectionStatus[p] = "undefined" /\ clients[p] = NoClient
    /\ P_startClient(p, by, tasks[p])
    /\ UNCHANGED <<reconnectAttempts, lastState, timers, send>>

\* GET /connect (lines 353-361), GET /qr and /qr.png (lines 371-376, 392-397)
P_request(p) ==
    /\ Quiet(p)
    /\ P_startClient(p, "request", tasks[p])
    /\ UNCHANGED <<reconnectAttempts, lastState, timers, send>>

\* a setTimeout callback calls startClient (lines 219-227, 521)
P_timer(p, tm) ==
    /\ Quiet(p)
    /\ tm.kind \in {"restart", "retry", "listenRetry"}
    /\ timers' = [timers EXCEPT ![p] = Take(@, tm)]
    /\ P_startClient(p, tm.kind, tasks[p])
    /\ UNCHANGED <<reconnectAttempts, lastState, send>>

\* 'await client.initialize()' resolves: startClient goes on to getState (lines
\* 257-261); a fallback client is returned at once (lines 283-285)
P_initialize_resolved(p, t) ==
    /\ Quiet(p)
    /\ t.op = "startClient" /\ t.pc = "initialize"
    /\ tasks' = [tasks EXCEPT ![p] =
                    IF t.fb THEN P_resumed(Take(@, t), p, t.by)
                    ELSE Put(Take(@, t), [t EXCEPT !.pc = "getState"])]
    /\ UNCHANGED <<clients, live, qrCodes, connectionStatus, reconnectAttempts, lastState, timers, send>>

\* the 'guard rail' getState() of startClient settles (lines 260-268)
P_startClient_getState(p, t, r) ==
    /\ Quiet(p)
    /\ t.op = "startClient" /\ t.pc = "getState"
    /\ tasks' = [tasks EXCEPT ![p] = P_resumed(Take(@, t), p, t.by)]
    /\ IF r = "reject"
       THEN /\ lastState' = [lastState EXCEPT ![p] = "UNKNOWN"]
            /\ UNCHANGED connectionStatus
       ELSE /\ lastState' = [lastState EXCEPT ![p] = IF r = "null" THEN "UNKNOWN" ELSE r]
            /\ connectionStatus' = [connectionStatus EXCEPT ![p] = IF r = "CONNECTED" THEN "true" ELSE "false"]
    /\ UNCHANGED <<clients, live, qrCodes, reconnectAttempts, timers, send>>

\* 'await client.initialize()' rejects: the catch block (lines 272-290); the
\* initialize() of the fallback client is awaited inside the catch block, so its
\* rejection leaves the function with the maps as they are
P_initialize_rejected(p, t, err) ==
    /\ Quiet(p)
    /\ t.op = "startClient" /\ t.pc = "initialize"
    /\ LET rest == Take(tasks[p], t)
       IN IF t.fb
          THEN /\ P_CanSettle(p, t.by, FALSE)
               /\ tasks' = [tasks EXCEPT ![p] = P_resumed(rest, p, t.by)]
               /\ timers' = [timers EXCEPT ![p] = P_settled(@, t.by, FALSE)]
               /\ UNCHANGED <<clients, live, connectionStatus, qrCodes>>
          ELSE IF err = "chrome"
          THEN \* fallback = buildClient(porta, null); clients.set(porta, fallback)
               LET free == P_Free(p, rest)
                   new  == CHOOSE i \in free : \A j \in free : i <= j
               IN /\ free # {}
                  /\ clients' = [clients EXCEPT ![p] = new]
                  /\ live' = [live EXCEPT ![p] = @ \cup {new}]
                  /\ connectionStatus' = [connectionStatus EXCEPT ![p] = "false"]
                  /\ qrCodes' = [qrCodes EXCEPT ![p] = NoQR]
                  /\ tasks' = [tasks EXCEPT ![p] = Put(rest, [t EXCEPT !.c = new, !.fb = TRUE])]
                  /\ UNCHANGED timers
          ELSE \* clients.delete(porta); throw err
               /\ P_CanSettle(p, t.by, FALSE)
               /\ clients' = [clients EXCEPT ![p] = NoClient]
               /\ tasks' = [tasks EXCEPT ![p] = P_resumed(rest, p, t.by)]
               /\ timers' = [timers EXCEPT ![p] = P_settled(@, t.by, FALSE)]
               /\ UNCHANGED <<live, connectionStatus, qrCodes>>
    /\ UNCHANGED <<reconnectAttempts, lastState, send>>

\* client.on('qr') (lines 199-202)
P_qr(p, c, qr) ==
    /\ Quiet(p)
    /\ c \in live[p]
    /\ qrCodes' = [qrCodes EXCEPT ![p] = qr]
    /\ UNCHANGED <<clients, live, connectionStatus, reconnectAttempts, lastState, timers, tasks, send>>

\* client.on('authenticated') only logs (lines 204-206)
P_authenticated(p, c) ==
    /\ Quiet(p)
    /\ c \in live[p]
    /\ UNCHANGED <<clients, live, qrCodes, connectionStatus, reconnectAttempts, lastState, timers, tasks, send>>

\* client.on('ready') (lines 208-212)
P_ready(p, c) ==
    /\ Quiet(p)
    /\ c \in live[p]
    /\ connectionStatus' = [connectionStatus EXCEPT ![p] = "true"]
    /\ qrCodes' = [qrCodes EXCEPT ![p] = NoQR]
    /\ UNCHANGED <<clients, live, reconnectAttempts, lastState, timers, tasks, send>>

\* client.on('change_state') (lines 230-233)
P_change_state(p, c, st) ==
    /\ Quiet(p)
    /\ c \in live[p]
    /\ lastState' = [lastState EXCEPT ![p] = st]
    /\ UNCHANGED <<clients, live, qrCodes, connectionStatus, reconnectAttempts, timers, tasks, send>>

\* client.on('auth_failure') (lines 235-238)
P_auth_failure(p, c) ==
    /\ Quiet(p)
    /\ c \in live[p]
    /\ connectionStatus' = [connectionStatus EXCEPT ![p] = "false"]
    /\ UNCHANGED <<clients, live, qrCodes, reconnectAttempts, lastState, timers, tasks, send>>

\* client.on('disconnected') up to 'await client.destroy()' (lines 214-218)
P_disconnected(p, c) ==
    /\ Quiet(p)
    /\ c \in live[p]
    /\ CanSuspend(p)
    /\ connectionStatus' = [connectionStatus EXCEPT ![p] = "false"]
    /\ qrCodes' = [qrCodes EXCEPT ![p] = NoQR]
    /\ live' = [live EXCEPT ![p] = @ \ {c}]
    /\ tasks' = [tasks EXCEPT ![p] = Put(@, [op |-> "disconnected", pc |-> "destroy", c |-> c])]
    /\ UNCHANGED <<clients, reconnectAttempts, lastState, timers, send>>

\* the 'disconnected' handler resumes after destroy() (lines 218-228)
P_disconnected_destroyed(p, t) ==
    /\ Quiet(p)
    /\ t.op = "disconnected" /\ t.pc = "destroy"
    /\ Size(timers[p]) < MaxTimers
    /\ clients' = [clients EXCEPT ![p] = NoClient]
    /\ tasks' = [tasks EXCEPT ![p] = Take(@, t)]
    /\ timers' = [timers EXCEPT ![p] = Put(@, [delay |-> restartDelay, kind |-> "restart"])]
    /\ UNCHANGED <<live, qrCodes, connectionStatus, reconnectAttempts, lastState, send>>

\* GET /status up to 'await client.getState()' (lines 322-334); `late` tells
\* whether more than 4 s have passed since the last call
P_status(p, late) ==
    /\ Quiet(p)
    /\ clients[p] # NoClient /\ CanSuspend(p)
    /\ late \/ lastState[p] \in {"CONNECTED", "UNKNOWN"}
    /\ tasks' = [tasks EXCEPT ![p] = Put(@, [op |-> "status", pc |-> "getState", c |-> clients[p]])]
    /\ UNCHANGED <<clients, live, qrCodes, connectionStatus, reconnectAttempts, lastState, timers, send>>

\* GET /status after getState() (lines 334-340)
P_status_getState(p, t, r) ==
    /\ Quiet(p)
    /\ t.op = "status"
    /\ tasks' = [tasks EXCEPT ![p] = Take(@, t)]
    /\ IF r = "reject"
       THEN UNCHANGED <<lastState, connectionStatus>>
       ELSE /\ lastState' = [lastState EXCEPT ![p] = IF r = "null" THEN "UNKNOWN" ELSE r]
            /\ connectionStatus' = [connectionStatus EXCEPT ![p] = IF r = "CONNECTED" THEN "true" ELSE "false"]
    /\ UNCHANGED <<clients, live, qrCodes, reconnectAttempts, timers, send>>

\* POST /send up to 'await client.sendMessage' (lines 412-428)
P_send(p, body) ==
    /\ Quiet(p)
    /\ SendIdle(p)
    /\ IF body # "ok" \/ clients[p] = NoClient \/ ~Truthy(connectionStatus[p])
       THEN /\ send' = [send EXCEPT ![p] = Respond(400)]
            /\ UNCHANGED tasks
       ELSE /\ CanSuspend(p)
            /\ tasks' = [tasks EXCEPT ![p] = Put(@, [op |-> "send", pc |-> "sendMessage", c |-> clients[p]])]
            /\ send' = [send EXCEPT ![p] = [IdleSend EXCEPT !.pc = "sending", !.forwarded = TRUE]]
    /\ UNCHANGED <<clients, live, qrCodes, connectionStatus, reconnectAttempts, lastState, timers>>

\* POST /send after sendMessage settled (lines 423-434)
P_sendMessage_settled(p, t, ok) ==
    /\ Quiet(p)
    /\ t.op = "send" /\ t.pc = "sendMessage"
    /\ tasks' = [tasks EXCEPT ![p] = Take(@, t)]
    /\ send' = [send EXCEPT ![p] = [@ EXCEPT !.pc = "done", !.code = IF ok THEN 200 ELSE 500]]
    /\ UNCHANGED <<clients, live, qrCodes, connectionStatus, reconnectAttempts, lastState, timers>>

\* GET /logout up to its first await (lines 438-443, 447)
P_logout(p) ==
    /\ Quiet(p)
    /\ IF clients[p] # NoClient
       THEN /\ CanSuspend(p)
            /\ tasks' = [tasks EXCEPT ![p] = Put(@, [op |-> "logout", pc |-> "logout", c |-> clients[p]])]
            /\ UNCHANGED <<clients, live, connectionStatus, qrCodes>>
       ELSE P_startClient(p, "request", tasks[p])
    /\ UNCHANGED <<reconnectAttempts, lastState, timers, send>>

\* GET /logout after logout() settled: 'await client.destroy()' (lines 443-444)
P_logout_loggedOut(p, t) ==
    /\ Quiet(p)
    /\ t.op = "logout" /\ t.pc = "logout"
    /\ live' = [live EXCEPT ![p] = @ \ {t.c}]
    /\ tasks' = [tasks EXCEPT ![p] = Put(Take(@, t), [t EXCEPT !.pc = "destroy"])]
    /\ UNCHANGED <<clients, qrCodes, connectionStatus, reconnectAttempts, lastState, timers, send>>

\* GET /logout after destroy() settled: clients.delete(porta) and startClient
\* (lines 445-447)
P_logout_destroyed(p, t) ==
    /\ Quiet(p)
    /\ t.op = "logout" /\ t.pc = "destroy"
    /\ LET rest == Take(tasks[p], t)
           free == {i \in ClientIds : i \notin live[p] /\ i \notin {u.c : u \in BagToSet(rest)}}
           new  == CHOOSE i \in free : \A j \in free : i <= j
       IN /\ free # {}
          /\ clients' = [clients EXCEPT ![p] = new]
          /\ live' = [live EXCEPT ![p] = @ \cup {new}]
          /\ connectionStatus' = [connectionStatus EXCEPT ![p] = "false"]
          /\ qrCodes' = [qrCodes EXCEPT ![p] = NoQR]
          /\ tasks' = [tasks EXCEPT ![p] = Put(rest, [op |-> "startClient", pc |-> "initialize",
                                                     c |-> new, by |-> "request", fb |-> FALSE])]
    /\ UNCHANGED <<reconnectAttempts, lastState, timers, send>>

\* GET /session/reset up to its first await (lines 455-466)
P_reset(p) ==
    /\ Quiet(p)
    /\ CanSuspend(p)
    /\ IF clients[p] # NoClient
       THEN /\ live' = [live EXCEPT ![p] = @ \ {clients[p]}]
            /\ tasks' = [tasks EXCEPT ![p] = Put(@, [op |-> "reset", pc |-> "destroy", c |-> clients[p]])]
       ELSE /\ tasks' = [tasks EXCEPT ![p] = Put(@, [op |-> "reset", pc |-> "remove", c |-> NoClient])]
            /\ UNCHANGED live
    /\ UNCHANGED <<clients, qrCodes, connectionStatus, reconnectAttempts, lastState, timers, send>>

\* GET /session/reset after destroy() settled: clients.delete(porta), then
\* 'await fs.remove(p)' (lines 460-466)
P_reset_destroyed(p, t) ==
    /\ Quiet(p)
    /\ t.op = "reset" /\ t.pc = "destroy"
    /\ clients' = [clients EXCEPT ![p] = NoClient]
    /\ tasks' = [tasks EXCEPT ![p] = Put(Take(@, t), [t EXCEPT !.pc = "remove", !.c = NoClient])]
    /\ UNCHANGED <<live, qrCodes, connectionStatus, reconnectAttempts, lastState, timers, send>>

\* GET /session/reset after fs.remove settled: startClient (lines 466-471)
P_reset_removed(p, t) ==
    /\ Quiet(p)
    /\ t.op = "reset" /\ t.pc = "remove"
    /\ P_startClient(p, "request", Take(tasks[p], t))
    /\ UNCHANGED <<reconnectAttempts, lastState, timers, send>>

\* a GET /qr or /qr.png is being handled
QrPending(p) ==
    \E t \in BagToSet(tasks[p]) : (t.op = "startClient" /\ t.by = "qr") \/ t.op = "qr"

\* GET /qr, GET /qr.png up to the first await (lines 371-377, 392-398): start the
\* client if the port has none, else wait for a QR; with a QR stored the
\* response is sent at once
P_qr_request(p) ==
    /\ Quiet(p)
    /\ Cardinality({t \in BagToSet(tasks[p]) : (t.op = "startClient" /\ t.by = "qr") \/ t.op = "qr"})
          < MaxQrRequests
    /\ IF clients[p] = NoClient
       THEN P_startClient(p, "qr", tasks[p])
       ELSE /\ qrCodes[p] = NoQR => CanSuspend(p)
            /\ tasks' = [tasks EXCEPT ![p] = P_resumed(@, p, "qr")]
            /\ UNCHANGED <<clients, live, connectionStatus, qrCodes>>
    /\ UNCHANGED <<reconnectAttempts, lastState, timers, send>>

\* waitQR wakes from sleep(1000) (lines 364-369): with a QR stored, or with 30 s
\* gone since the start (`late`), the loop ends and the response is sent
\* (lines 378-386, 399-405); else it sleeps again
P_waitQR_woken(p, t, late) ==
    /\ Quiet(p)
    /\ t.op = "qr" /\ t.pc = "waitQR"
    /\ tasks' = [tasks EXCEPT ![p] = IF qrCodes[p] # NoQR \/ late THEN Take(@, t) ELSE @]
    /\ UNCHANGED <<clients, live, qrCodes, connectionStatus, reconnectAttempts, lastState, timers, send>>

\* the token header of a request: absent or wrong, or the value of API_TOKEN
Headers == {"none", "match"}

\* a request arrives at its route: cors() and express.json() are the only
\* middleware (lines 52-53) and no handler of lines 307-475 reads a header or
\* process.env.API_TOKEN, so the handler runs whatever the header is
P_http(p, header) ==
    \/ P_request(p)
    \/ \E late \in BOOLEAN : P_status(p, late)
    \/ \E body \in Bodies : P_send(p, body)
    \/ P_logout(p)
    \/ P_reset(p)

NextP ==
    \E p \in Ports :
        \/ \E by \in P_Callers : P_listen(p, by)
        \/ P_request(p)
        \/ \E tm \in BagToSet(timers[p]) : P_timer(p, tm)
        \/ \E t \in BagToSet(tasks[p]) : P_initialize_resolved(p, t)
        \/ \E t \in BagToSet(tasks[p]), r \in GetStateResults : P_startClient_getState(p, t, r)
        \/ \E t \in BagToSet(tasks[p]), err \in InitErrors : P_initialize_rejected(p, t, err)
        \/ \E c \in ClientIds, qr \in QRs : P_qr(p, c, qr)
        \/ \E c \in ClientIds : P_authenticated(p, c)
        \/ \E c \in ClientIds : P_ready(p, c)
        \/ \E c \in ClientIds, st \in ChangeStates : P_change_state(p, c, st)
        \/ \E c \in ClientIds : P_auth_failure(p, c)
        \/ \E c \in ClientIds : P_disconnected(p, c)
        \/ \E t \in BagToSet(tasks[p]) : P_disconnected_destroyed(p, t)
        \/ \E late \in BOOLEAN : P_status(p, late)
        \/ \E t \in BagToSet(tasks[p]), r \in GetStateResults : P_status_getState(p, t, r)
        \/ \E body \in Bodies : P_send(p, body)
        \/ \E t \in BagToSet(tasks[p]), ok \in BOOLEAN : P_sendMessage_settled(p, t, ok)
        \/ P_logout(p)
        \/ \E t \in BagToSet(tasks[p]) : P_logout_loggedOut(p, t)
        \/ \E t \in BagToSet(tasks[p]) : P_logout_destroyed(p, t)
        \/ P_reset(p)
        \/ \E t \in BagToSet(tasks[p]) : P_reset_destroyed(p, t)
        \/ \E t \in BagToSet(tasks[p]) : P_reset_removed(p, t)

SpecP == Init /\ [][NextP]_vars

\* The server as its HTTP clients drive it: every request with either header,
\* the continuations of the handlers, and 'ready' as the only library event
NextPA ==
    \E p \in Ports :
        \/ \E header \in Headers : P_http(p, header)
        \/ \E t \in BagToSet(tasks[p]) : P_initialize_resolved(p, t)
        \/ \E t \in BagToSet(tasks[p]), r \in GetStateResults : P_startClient_getState(p, t, r)
        \/ \E t \in BagToSet(tasks[p]), err \in InitErrors : P_initialize_rejected(p, t, err)
        \/ \E c \in ClientIds : P_ready(p, c)
        \/ \E t \in BagToSet(tasks[p]), r \in GetStateResults : P_status_getState(p, t, r)
        \/ \E t \in BagToSet(tasks[p]), ok \in BOOLEAN : P_sendMessage_settled(p, t, ok)
        \/ \E t \in BagToSet(tasks[p]) : P_logout_loggedOut(p, t)
        \/ \E t \in BagToSet(tasks[p]) : P_logout_destroyed(p, t)
        \/ \E t \in BagToSet(tasks[p]) : P_reset_destroyed(p, t)
        \/ \E t \in BagToSet(tasks[p]) : P_reset_removed(p, t)

SpecPA == Init /\ [][NextPA]_vars

\* time passes: Date.now() (line 73) reads TickMs later
P_tick ==
    /\ clock + TickMs <= MaxTime
    /\ clock' = clock + TickMs
    /\ UNCHANGED <<clients, live, qrCodes, connectionStatus, reconnectAttempts, lastState, timers,
                   tasks, send, lastEvent, reply, execPath, isInitializing, lastGetStateAt, lastCallAt>>

\* mutant: GET /status that does not stamp lastGetStateAt when it calls
P_status_at_unstamped(p) ==
    /\ lastEvent' = [lastEvent EXCEPT ![p] = "none"]
    /\ LET last == lastGetStateAt[p]
           delta == clock - last
           shouldCall == delta > statusThrottle \/ lastState[p] \in {"CONNECTED", "UNKNOWN"}
       IN IF clients[p] # NoClient /\ shouldCall
          THEN /\ CanSuspend(p)
               /\ lastCallAt' = [lastCallAt EXCEPT ![p] = clock]
               /\ tasks' = [tasks EXCEPT ![p] = Put(@, [op |-> "status", pc |-> "getState", c |-> clients[p]])]
               /\ reply' = [reply EXCEPT ![p] = NoReply]
               /\ UNCHANGED lastGetStateAt
          ELSE /\ reply' = [reply EXCEPT ![p] = [route |-> "status", connected |-> Truthy(connectionStatus[p])]]
               /\ UNCHANGED <<tasks, lastGetStateAt, lastCallAt>>
    /\ UNCHANGED <<clients, live, qrCodes, connectionStatus, reconnectAttempts, lastState, timers,
                   send, execPath, isInitializing, clock>>

\* GET /status with the clock read (lines 322-351): up to 'await
\* client.getState()' when it calls, up to res.json when it does not
P_status_at(p) ==
    /\ lastEvent' = [lastEvent EXCEPT ![p] = "none"]
    /\ LET last == lastGetStateAt[p]
           delta == clock - last
           shouldCall == delta > statusThrottle \/ lastState[p] \in {"CONNECTED", "UNKNOWN"}
       IN IF clients[p] # NoClient /\ shouldCall
          THEN /\ CanSuspend(p)
               /\ lastGetStateAt' = [lastGetStateAt EXCEPT ![p] = clock]
               /\ lastCallAt' = [lastCallAt EXCEPT ![p] = clock]
               /\ tasks' = [tasks EXCEPT ![p] = Put(@, [op |-> "status", pc |-> "getState", c |-> clients[p]])]
               /\ reply' = [reply EXCEPT ![p] = NoReply]
          ELSE /\ reply' = [reply EXCEPT ![p] = [route |-> "status", connected |-> Truthy(connectionStatus[p])]]
               /\ UNCHANGED <<tasks, lastGetStateAt, lastCallAt>>
    /\ UNCHANGED <<clients, live, qrCodes, connectionStatus, reconnectAttempts, lastState, timers,
                   send, execPath, isInitializing, clock>>

\* The part of the server GET /status depends on, with the clock: the start
\* of the channel, the state changes of its client and the requests
NextPT ==
    \/ P_tick
    \/ \E p \in Ports :
        \/ \E by \in P_Callers : P_listen(p, by)
        \/ \E t \in BagToSet(tasks[p]) : P_initialize_resolved(p, t)
        \/ \E t \in BagToSet(tasks[p]), r \in GetStateResults : P_startClient_getState(p, t, r)
        \/ \E c \in ClientIds, st \in ChangeStates : P_change_state(p, c, st)
        \/ P_status_at(p)
        \/ \E t \in BagToSet(tasks[p]), r \in GetStateResults : P_status_getState(p, t, r)

SpecPT == Init /\ [][NextPT]_vars

\* The part of the server a GET /qr or /qr.png depends on: the start of the
\* channel, the events and restarts of its clients, and the request itself
NextPQ ==
    \E p \in Ports :
        \/ \E by \in P_Callers : P_listen(p, by)
        \/ P_request(p)
        \/ P_qr_request(p)
        \/ \E t \in BagToSet(tasks[p]), late \in BOOLEAN : P_waitQR_woken(p, t, late)
        \/ \E tm \in BagToSet(timers[p]) : P_timer(p, tm)
        \/ \E t \in BagToSet(tasks[p]) : P_initialize_resolved(p, t)
        \/ \E t \in BagToSet(tasks[p]), r \in GetStateResults : P_startClient_getState(p, t, r)
        \/ \E t \in BagToSet(tasks[p]), err \in InitErrors : P_initialize_rejected(p, t, err)
        \/ \E c \in ClientIds, qr \in QRs : P_qr(p, c, qr)
        \/ \E c \in ClientIds : P_authenticated(p, c)
        \/ \E c \in ClientIds : P_ready(p, c)
        \/ \E c \in ClientIds : P_auth_failure(p, c)
        \/ \E c \in ClientIds : P_disconnected(p, c)
        \/ \E t \in BagToSet(tasks[p]) : P_disconnected_destroyed(p, t)

\* Timers are fair (a sleeping waitQR wakes, the 30 s of its loop run out, a
\* restart timer fires) and the getState() and destroy() calls of the library
\* settle.  Nothing makes initialize() settle.
SpecPQ ==
    /\ Init /\ [][NextPQ]_vars
    /\ \A p \in Ports :
          /\ WF_vars(\E t \in BagToSet(tasks[p]) : P_waitQR_woken(p, t, TRUE))
          /\ WF_vars(\E tm \in BagToSet(timers[p]) : P_timer(p, tm))
          /\ WF_vars(\E t \in BagToSet(tasks[p]), r \in GetStateResults : P_startClient_getState(p, t, r))
          /\ WF_vars(\E t \in BagToSet(tasks[p]) : P_disconnected_destroyed(p, t))

----------------------------------------------------------------------------
(* Single-channel server of src/unnamed/part_006: client, currentQR and     *)
(* isConnected are the entries of its one channel                           *)

\* the single-channel servers are loaded with client = null, currentQR = null,
\* isConnected = false (part_006 lines 19-21, part_002 lines 41-44)
InitS ==
    /\ clients = [p \in AutoPorts |-> NoClient]
    /\ live = [p \in AutoPorts |-> {}]
    /\ qrCodes = [p \in AutoPorts |-> NoQR]
    /\ connectionStatus = [p \in AutoPorts |-> "false"]
    /\ reconnectAttempts = [p \in AutoPorts |-> 0]
    /\ lastState = [p \in AutoPorts |-> "UNKNOWN"]
    /\ timers = [p \in AutoPorts |-> EmptyBag]
    /\ tasks = [p \in AutoPorts |-> EmptyBag]
    /\ send = [p \in AutoPorts |-> IdleSend]
    /\ lastEvent = [p \in AutoPorts |-> "none"]
    /\ reply = [p \in AutoPorts |-> NoReply]
    /\ execPath = "unset"
    /\ isInitializing = FALSE
    /\ clock = StartTime
    /\ lastGetStateAt = [p \in AutoPorts |-> 0]
    /\ lastCallAt = [p \in AutoPorts |-> 0]

\* startClient (lines 24-72) up to 'await client.initialize()', behind its
\* guard 'if (client || isConnected) return'; `base` holds the suspended functions
S_startClient(p, base) ==
    IF clients[p] # NoClient \/ Truthy(connectionStatus[p])
    THEN /\ tasks' = [tasks EXCEPT ![p] = base]
         /\ UNCHANGED <<clients, live>>
    ELSE /\ CanConstruct(p) /\ Size(base) < MaxTasks
         /\ clients' = [clients EXCEPT ![p] = NewId(p)]
         /\ live' = [live EXCEPT ![p] = @ \cup {NewId(p)}]
         /\ tasks' = [tasks EXCEPT ![p] = Put(base, [op |-> "startClient", pc |-> "initialize", c |-> NewId(p)])]

\* GET /connect (lines 141-151) and the listen callback (line 185)
S_connect(p) ==
    /\ Quiet(p)
    /\ IF clients[p] = NoClient
       THEN S_startClient(p, tasks[p])
       ELSE UNCHANGED <<clients, live, tasks>>
    /\ UNCHANGED <<qrCodes, connectionStatus, reconnectAttempts, lastState, timers, send>>

\* initialize() resolves: startClient returns
S_initialize_resolved(p, t) ==
    /\ Quiet(p)
    /\ t.op = "startClient" /\ t.pc = "initialize"
    /\ tasks' = [tasks EXCEPT ![p] = Take(@, t)]
    /\ UNCHANGED <<clients, live, qrCodes, connectionStatus, reconnectAttempts, lastState, timers, send>>

\* initialize() rejects: the catch block only logs (lines 73-75)
S_initialize_rejected(p, t) ==
    /\ Emitted(p, "initialize_rejected")
    /\ t.op = "startClient" /\ t.pc = "initialize"
    /\ tasks' = [tasks EXCEPT ![p] = Take(@, t)]
    /\ UNCHANGED <<clients, live, qrCodes, connectionStatus, reconnectAttempts, lastState, timers, send>>

\* client.on('qr') (lines 55-58)
S_qr(p, c, qr) ==
    /\ Emitted(p, "qr")
    /\ c \in live[p]
    /\ qrCodes' = [qrCodes EXCEPT ![p] = qr]
    /\ UNCHANGED <<clients, live, connectionStatus, reconnectAttempts, lastState, timers, tasks, send>>

\* client.on('ready') (lines 60-64)
S_ready(p, c) ==
    /\ Emitted(p, "ready")
    /\ c \in live[p]
    /\ connectionStatus' = [connectionStatus EXCEPT ![p] = "true"]
    /\ qrCodes' = [qrCodes EXCEPT ![p] = NoQR]
    /\ UNCHANGED <<clients, live, reconnectAttempts, lastState, timers, tasks, send>>

\* client.on('disconnected') (lines 66-70)
S_disconnected(p, c) ==
    /\ Emitted(p, "disconnected")
    /\ c \in live[p]
    /\ connectionStatus' = [connectionStatus EXCEPT ![p] = "false"]
    /\ qrCodes' = [qrCodes EXCEPT ![p] = NoQR]
    /\ UNCHANGED <<clients, live, reconnectAttempts, lastState, timers, tasks, send>>

\* the loop test of /qr with `n` sleeps done of `max` (lines 112, 120): the
\* handler sleeps 1 s, or answers (lines 127-133); `base` holds the suspended
\* functions without the handler
S_qr_loop(p, base, n, max) ==
    IF qrCodes[p] = NoQR /\ n < max
    THEN /\ Quiet(p)
         /\ Size(base) < MaxTasks
         /\ tasks' = [tasks EXCEPT ![p] = Put(base, [op |-> "qr", pc |-> "poll", c |-> NoClient, n |-> n, max |-> max])]
    ELSE /\ Answered(p, W_qr_response(qrCodes[p]))
         /\ tasks' = [tasks EXCEPT ![p] = base]

\* GET /qr up to its first await (lines 103-125)
S_qr_request(p) ==
    /\ IF Truthy(connectionStatus[p])
       THEN /\ Answered(p, W_qr_response(qrCodes[p]))
            /\ UNCHANGED <<clients, live, tasks>>
       ELSE IF clients[p] = NoClient
       THEN /\ CanConstruct(p) /\ CanSuspend(p)
            /\ clients' = [clients EXCEPT ![p] = NewId(p)]
            /\ live' = [live EXCEPT ![p] = @ \cup {NewId(p)}]
            /\ S_qr_loop(p, Put(tasks[p], [op |-> "startClient", pc |-> "initialize", c |-> NewId(p)]),
                         0, S_StartPolls)
       ELSE /\ S_qr_loop(p, tasks[p], 0, S_WaitPolls)
            /\ UNCHANGED <<clients, live>>
    /\ UNCHANGED <<qrCodes, connectionStatus, reconnectAttempts, lastState, timers, send>>

\* a 1 s sleep of /qr ends: attempts++ and the loop test (lines 112-116, 120-123)
S_qr_polled(p, t) ==
    /\ t.op = "qr" /\ t.pc = "poll"
    /\ S_qr_loop(p, Take(tasks[p], t), t.n + 1, t.max)
    /\ UNCHANGED <<clients, live, qrCodes, connectionStatus, reconnectAttempts, lastState, timers, send>>

NextS ==
    \E p \in Ports :
        \/ S_connect(p)
        \/ S_qr_request(p)
        \/ \E t \in BagToSet(tasks[p]) : S_qr_polled(p, t)
        \/ \E t \in BagToSet(tasks[p]) : S_initialize_resolved(p, t)
        \/ \E t \in BagToSet(tasks[p]) : S_initialize_rejected(p, t)
        \/ \E c \in ClientIds, qr \in QRs : S_qr(p, c, qr)
        \/ \E c \in ClientIds : S_ready(p, c)
        \/ \E c \in ClientIds : S_disconnected(p, c)

SpecS == InitS /\ [][NextS]_vars

----------------------------------------------------------------------------
(* Single-channel server of src/unnamed/part_002: client, currentQR and     *)
(* isConnected are the entries of its one channel, beside isInitializing    *)

\* request methods and paths; "/other" stands for every path without a route
Methods == {"GET", "POST"}
Paths == {"/health", "/qr", "/status", "/connect", "/test", "/send", "/other"}

\* a JSON body: the HTTP status, the field success ("absent" when the object
\* has none) and whether it has an error string
H_json(code, success, error) ==
    [route |-> "http", code |-> code, success |-> success, error |-> error]

\* startWhatsAppClient up to its first await (lines 74-98, 174); `base` holds
\* the suspended functions without the caller
H_startWhatsAppClient(p, base) ==
    IF isInitializing \/ (clients[p] # NoClient /\ Truthy(connectionStatus[p]))
    THEN /\ tasks' = [tasks EXCEPT ![p] = base]
         /\ UNCHANGED <<clients, live, isInitializing>>
    ELSE /\ isInitializing' = TRUE
         /\ Size(base) < H_MaxTasks
         /\ IF clients[p] # NoClient
            THEN /\ live' = [live EXCEPT ![p] = @ \ {clients[p]}]
                 /\ tasks' = [tasks EXCEPT ![p] = Put(base, [op |-> "startClient", pc |-> "destroy", c |-> clients[p]])]
                 /\ UNCHANGED clients
            ELSE /\ CanConstruct(p)
                 /\ clients' = [clients EXCEPT ![p] = NewId(p)]
                 /\ live' = [live EXCEPT ![p] = @ \cup {NewId(p)}]
                 /\ tasks' = [tasks EXCEPT ![p] = Put(base, [op |-> "startClient", pc |-> "initialize", c |-> NewId(p)])]

\* startWhatsAppClient resumes after 'await client.destroy()' (lines 92-174)
H_start_destroyed(p, t) ==
    /\ Quiet(p)
    /\ t.op = "startClient" /\ t.pc = "destroy"
    /\ LET rest == Take(tasks[p], t)
           free == {j \in ClientIds : j \notin live[p] /\ j \notin {u.c : u \in BagToSet(rest)}}
           new  == CHOOSE j \in free : \A k \in free : j <= k
       IN /\ free # {}
          /\ clients' = [clients EXCEPT ![p] = new]
          /\ live' = [live EXCEPT ![p] = @ \cup {new}]
          /\ tasks' = [tasks EXCEPT ![p] = Put(rest, [op |-> "startClient", pc |-> "initialize", c |-> new])]
    /\ UNCHANGED <<qrCodes, connectionStatus, reconnectAttempts, lastState, timers, send>>

\* 'await client.initialize()' resolves (lines 174-175): only a log line
H_initialize_resolved(p, t) ==
    /\ Quiet(p)
    /\ t.op = "startClient" /\ t.pc = "initialize"
    /\ tasks' = [tasks EXCEPT ![p] = Take(@, t)]
    /\ UNCHANGED <<clients, live, qrCodes, connectionStatus, reconnectAttempts, lastState, timers, send>>

\* 'await client.initialize()' rejects: the catch block (lines 176-180)
H_initialize_rejected(p, t) ==
    /\ Step(p, "none", NoReply) /\ UNCHANGED execPath
    /\ t.op = "startClient" /\ t.pc = "initialize"
    /\ tasks' = [tasks EXCEPT ![p] = Take(@, t)]
    /\ connectionStatus' = [connectionStatus EXCEPT ![p] = "false"]
    /\ isInitializing' = FALSE
    /\ UNCHANGED <<clients, live, qrCodes, reconnectAttempts, lastState, timers, send>>

\* client.on('qr') (lines 133-143)
H_qr(p, c, qr) ==
    /\ Step(p, "qr", NoReply) /\ UNCHANGED execPath
    /\ c \in live[p]
    /\ qrCodes' = [qrCodes EXCEPT ![p] = qr]
    /\ isInitializing' = FALSE
    /\ UNCHANGED <<clients, live, connectionStatus, reconnectAttempts, lastState, timers, tasks, send>>

\* client.on('ready') (lines 145-151)
H_ready(p, c) ==
    /\ Step(p, "ready", NoReply) /\ UNCHANGED execPath
    /\ c \in live[p]
    /\ connectionStatus' = [connectionStatus EXCEPT ![p] = "true"]
    /\ qrCodes' = [qrCodes EXCEPT ![p] = NoQR]
    /\ isInitializing' = FALSE
    /\ UNCHANGED <<clients, live, reconnectAttempts, lastState, timers, tasks, send>>

\* client.on('disconnected') and client.on('auth_failure') (lines 160-172)
H_lost(p, c, e) ==
    /\ Step(p, e, NoReply) /\ UNCHANGED execPath
    /\ e \in {"disconnected", "auth_failure"}
    /\ c \in live[p]
    /\ connectionStatus' = [connectionStatus EXCEPT ![p] = "false"]
    /\ qrCodes' = [qrCodes EXCEPT ![p] = NoQR]
    /\ isInitializing' = FALSE
    /\ UNCHANGED <<clients, live, reconnectAttempts, lastState, timers, tasks, send>>

\* the routes that answer without an await (lines 201-210, 233-240, 257-269,
\* 298-309): /health, /status and /test for any method, /connect and /send
\* for a method other than POST, and every other path
H_request(p, method, path) ==
    /\ \/ path \in {"/health", "/status", "/test"}
          /\ Answered(p, H_json(200, "true", FALSE))
       \/ path \in {"/connect", "/send"} /\ method # "POST"
          /\ Answered(p, H_json(405, "absent", TRUE))
       \/ path = "/other"
          /\ Answered(p, H_json(404, "false", TRUE))
    /\ UNCHANGED <<clients, live, qrCodes, connectionStatus, reconnectAttempts, lastState, timers, tasks, send>>

\* POST /connect and POST /send up to 'await parsePostData(req)' (lines 242-243, 271-272)
H_post(p, path) ==
    /\ Quiet(p)
    /\ path \in {"/connect", "/send"}
    /\ Size(tasks[p]) < H_MaxTasks
    /\ tasks' = [tasks EXCEPT ![p] = Put(@, [op |-> path, pc |-> "body", c |-> NoClient])]
    /\ UNCHANGED <<clients, live, qrCodes, connectionStatus, reconnectAttempts, lastState, timers, send>>

\* POST /connect after the body was read (lines 244-256)
H_connect_end(p, t) ==
    /\ Step(p, "none", H_json(200, "true", FALSE)) /\ UNCHANGED execPath
    /\ t.op = "/connect" /\ t.pc = "body"
    /\ IF clients[p] = NoClient /\ ~isInitializing
       THEN H_startWhatsAppClient(p, Take(tasks[p], t))
       ELSE /\ tasks' = [tasks EXCEPT ![p] = Take(@, t)]
            /\ UNCHANGED <<clients, live, isInitializing>>
    /\ UNCHANGED <<qrCodes, connectionStatus, reconnectAttempts, lastState, timers, send>>

\* POST /send after the body was read (lines 273-285)
H_send_end(p, t) ==
    /\ t.op = "/send" /\ t.pc = "body"
    /\ IF clients[p] = NoClient \/ ~Truthy(connectionStatus[p])
       THEN /\ Answered(p, H_json(400, "false", TRUE))
            /\ tasks' = [tasks EXCEPT ![p] = Take(@, t)]
       ELSE /\ Quiet(p)
            /\ tasks' = [tasks EXCEPT ![p] = Put(Take(@, t), [op |-> "/send", pc |-> "sendMessage", c |-> clients[p]])]
    /\ UNCHANGED <<clients, live, qrCodes, connectionStatus, reconnectAttempts, lastState, timers, send>>

\* POST /send after sendMessage settled (lines 285-297)
H_sendMessage_settled(p, t, ok) ==
    /\ Answered(p, IF ok THEN H_json(200, "true", FALSE) ELSE H_json(500, "false", TRUE))
    /\ t.op = "/send" /\ t.pc = "sendMessage"
    /\ tasks' = [tasks EXCEPT ![p] = Take(@, t)]
    /\ UNCHANGED <<clients, live, qrCodes, connectionStatus, reconnectAttempts, lastState, timers, send>>

\* /qr up to its first await (lines 211-232): with no QR, not connected and
\* not initializing it starts the client and sleeps; else it answers
H_qr_request(p) ==
    /\ IF qrCodes[p] = NoQR /\ ~Truthy(connectionStatus[p]) /\ ~isInitializing
       THEN /\ Step(p, "none", NoReply) /\ UNCHANGED execPath
            /\ Size(tasks[p]) < H_MaxTasks
            /\ H_startWhatsAppClient(p, Put(tasks[p], [op |-> "/qr", pc |-> "poll", c |-> NoClient, n |-> 0]))
       ELSE /\ Answered(p, H_json(200, "true", FALSE))
            /\ UNCHANGED <<clients, live, tasks>>
    /\ UNCHANGED <<qrCodes, connectionStatus, reconnectAttempts, lastState, timers, send>>

\* a 1 s sleep of /qr ends (lines 219-232): attempts++, then the loop test
H_qr_polled(p, t) ==
    /\ t.op = "/qr" /\ t.pc = "poll"
    /\ IF qrCodes[p] = NoQR /\ t.n + 1 < H_QrPolls
       THEN /\ Quiet(p)
            /\ tasks' = [tasks EXCEPT ![p] = Put(Take(@, t), [t EXCEPT !.n = @ + 1])]
       ELSE /\ Answered(p, H_json(200, "true", FALSE))
            /\ tasks' = [tasks EXCEPT ![p] = Take(@, t)]
    /\ UNCHANGED <<clients, live, qrCodes, connectionStatus, reconnectAttempts, lastState, timers, send>>

NextH ==
    \E p \in Ports :
        \/ \E method \in Methods, path \in Paths : H_request(p, method, path)
        \/ \E path \in Paths : H_post(p, path)
        \/ \E t \in BagToSet(tasks[p]) : H_connect_end(p, t)
        \/ \E t \in BagToSet(tasks[p]) : H_send_end(p, t)
        \/ \E t \in BagToSet(tasks[p]), ok \in BOOLEAN : H_sendMessage_settled(p, t, ok)
        \/ H_qr_request(p)
        \/ \E t \in BagToSet(tasks[p]) : H_qr_polled(p, t)
        \/ \E t \in BagToSet(tasks[p]) : H_start_destroyed(p, t)
        \/ \E t \in BagToSet(tasks[p]) : H_initialize_resolved(p, t)
        \/ \E t \in BagToSet(tasks[p]) : H_initialize_rejected(p, t)
        \/ \E c \in ClientIds, qr \in QRs : H_qr(p, c, qr)
        \/ \E c \in ClientIds : H_ready(p, c)
        \/ \E c \in ClientIds, e \in {"disconnected", "auth_failure"} : H_lost(p, c, e)

\* the module is loaded with client = null, isConnected = false (lines 41-44)
SpecH == InitS /\ [][NextH]_vars

\* the server when every awaited promise settles (body read, sendMessage(),
\* the 1 s sleep, destroy(), initialize()); the library owes no event and no
\* client owes a request
SpecHF ==
    /\ InitS /\ [][NextH]_vars
    /\ WF_vars(\E p \in Ports : \E t \in BagToSet(tasks[p]) : H_connect_end(p, t))
    /\ WF_vars(\E p \in Ports : \E t \in BagToSet(tasks[p]) : H_send_end(p, t))
    /\ WF_vars(\E p \in Ports : \E t \in BagToSet(tasks[p]), ok \in BOOLEAN : H_sendMessage_settled(p, t, ok))
    /\ WF_vars(\E p \in Ports : \E t \in BagToSet(tasks[p]) : H_qr_polled(p, t))
    /\ WF_vars(\E p \in Ports : \E t \in BagToSet(tasks[p]) : H_start_destroyed(p, t))
    /\ WF_vars(\E p \in Ports : \E t \in BagToSet(tasks[p]) :
                   H_initialize_resolved(p, t) \/ H_initialize_rejected(p, t))

----------------------------------------------------------------------------
(* Claims about the backoff server *)

\* C2: every Client constructed for a port is the one stored in clients[port]
\* or has had destroy() called on it, also when startClient invocations overlap
C2_NoLiveClientOutsideMap ==
    \A p \in Ports : live[p] \subseteq {clients[p]}

\* C3: a POST /send whose port is not connected when the message would be
\* forwarded ends in HTTP 400 and never invokes sendMessage
C3_SendOnlyWhenConnected ==
    \A p \in Ports :
        (send[p].atEnd = "disconnected" /\ send[p].body = "ok") =>
            /\ ~send[p].forwarded
            /\ send[p].pc = "done" => send[p].code = 400

\* C4: a 'disconnected' event at reconnectAttempts = n < 5 schedules startClient
\* after min(1000 * 2^n, 30000) ms, and the counter goes to n + 1 because of it
C4_DisconnectBackoff ==
    [][\A p \in Ports :
         /\ (lastEvent'[p] = "disconnected" /\ reconnectAttempts[p] < 5) =>
               timers'[p] = Put(timers[p], [delay |-> Min(1000 * 2^reconnectAttempts[p], 30000),
                                            kind |-> "reconnect"])
         /\ \A tm \in BagToSet(timers[p]) : \A n \in 0..4 :
               (B_timer(p, tm) /\ tm.delay = Min(1000 * 2^n, 30000)) =>
                   reconnectAttempts'[p] = n + 1]_vars

\* C5: reconnectAttempts[port] never exceeds maxReconnectAttempts
C5_RetryCountBounded ==
    \A p \in Ports : reconnectAttempts[p] <= maxReconnectAttempts

\* C6: once the retry limit has been reached no timer-driven startClient happens
C6_NoRestartAfterLimit ==
    [][\A p \in Ports : \A tm \in BagToSet(timers[p]) :
         B_timer(p, tm) => reconnectAttempts[p] < maxReconnectAttempts]_vars

C13_ReadyResets ==
    \A p \in Ports :
        lastEvent[p] = "ready" =>
            /\ connectionStatus[p] = "true"
            /\ qrCodes[p] = NoQR
            /\ reconnectAttempts[p] = 0

\* C13 witness: the current client emitted 'ready' while a reconnect timer
\* scheduled at a retry count of 1 or more was still pending
C13_ReadyAfterRetries ==
    \E p \in Ports :
        /\ lastEvent[p] = "ready"
        /\ clients[p] \in live[p]
        /\ reconnectAttempts[p] = 0
        /\ \E tm \in BagToSet(timers[p]) : tm.delay >= 2 * baseDelay

\* C18: with status checks whose getState() fails as the only trouble, the
\* client of a port is never destroyed and never replaced
C18_FailedCheckKeepsClient ==
    [][\A p \in Ports :
          /\ live[p] \subseteq live'[p]
          /\ clients[p] # NoClient => clients'[p] = clients[p]
      ]_vars

\* C20: a round of the interval that waits for the getState() of port 3000
\* goes on to the check of port 3001
C20_SecondPortChecked == IntervalWaiting ~> ~IntervalWaiting

\* the port has given up: the retry limit is reached, it is not connected, and
\* no reconnect timer and no startClient call is pending
B_GaveUp(p) ==
    /\ reconnectAttempts[p] >= maxReconnectAttempts
    /\ ~Truthy(connectionStatus[p])
    /\ timers[p] = EmptyBag
    /\ \A t \in BagToSet(tasks[p]) : t.op # "startClient"

\* C22: a GET /connect for a port that has given up starts over: a startClient
\* call is under way afterwards, which destroys the stale client or builds a new one
C22_ConnectRestartsAfterLimit ==
    [][\A p \in Ports :
          (B_GaveUp(p) /\ B_connect(p))
             => \E t \in BagToSet(tasks'[p]) : t.op = "startClient"
      ]_vars

\* C31: at most one reconnect timer is pending for a port at any time
C31_OneReconnectTimer ==
    \A p \in Ports :
        Size([tm \in {u \in BagToSet(timers[p]) : u.kind = "reconnect"} |-> CopiesIn(tm, timers[p])]) <= 1

\* C32: a port that is connected has a retry count of zero
C32_ConnectedMeansNoRetries ==
    \A p \in Ports :
        connectionStatus[p] = "true" => reconnectAttempts[p] = 0

\* C33: a status check schedules a reconnect only when the port was
\* connected before the check
C33_CheckReconnectsLostOnly ==
    [][\A p \in Ports : \A t \in BagToSet(tasks[p]) : \A r \in GetStateResults :
          (B_getState_settled(p, t, r) /\ Size(timers'[p]) > Size(timers[p]))
             => connectionStatus[p] = "true"
      ]_vars

----------------------------------------------------------------------------
(* Claims about the first server of src/web-server.js *)

\* C8: whenever a client is dropped from the clients map, destroy() has been
\* called on it: no client leaves the map while still live
C8_DroppedClientsDestroyed ==
    [][\A p \in Ports :
         (clients[p] # NoClient /\ clients'[p] # clients[p]) => clients[p] \notin live'[p]]_vars

\* C10: qrCodes[port] is non-null only while connectionStatus[port] is not true
C10_QrOnlyWhilePairing ==
    \A p \in Ports : qrCodes[p] # NoQR => ~Truthy(connectionStatus[p])

\* C16: a GET /qr for a port without client that is not connected starts the
\* client; its loop sleeps at most MaxQrPolls times, and sleeps again only
\* while no QR is stored; every answer of /qr carries the QR stored when it is
\* sent, or the placeholder when none is stored
C16_QrPollBounded ==
    [][\A p \in Ports :
          /\ W_qr_request(p) =>
                /\ clients'[p] # NoClient /\ clients'[p] \in live'[p]
                /\ \E t \in BagToSet(tasks'[p]) :
                       t.op = "startClient" /\ t.c = clients'[p]
          /\ \A t \in BagToSet(tasks'[p]) : t.op = "qr" => t.n < MaxQrPolls
          /\ \A t \in BagToSet(tasks[p]) :
                W_qr_polled(p, t) =>
                   LET again == [t EXCEPT !.n = t.n + 1]
                   IN (CopiesIn(again, tasks'[p]) > CopiesIn(again, tasks[p]))
                         <=> (qrCodes[p] = NoQR /\ t.n + 1 < MaxQrPolls)
          /\ reply'[p].route = "qr" =>
                reply'[p].qr = (IF qrCodes'[p] # NoQR THEN qrCodes'[p] ELSE Placeholder)
      ]_vars

\* the handler sleeps for the last time, still without a QR
C16_LastPoll ==
    \E p \in Ports : \E t \in BagToSet(tasks[p]) :
        /\ t.op = "qr" /\ t.n = MaxQrPolls - 1
        /\ qrCodes[p] = NoQR /\ clients[p] # NoClient

\* C17: when the getState() call made for /status or /health fails, the
\* cached connectionStatus of the port still tells connected from not connected
\* as it did before the request
C17_FailedRefreshKeepsStatus ==
    [][\A p \in Ports : \A t \in BagToSet(tasks[p]) :
          (W_getState_settled(p, t, "reject") /\ t.by = "poll")
             => Truthy(connectionStatus'[p]) = Truthy(connectionStatus[p])
      ]_vars

\* C25: the 200 answer of POST /send carries the id of the Message that
\* sendMessage returned
C25_SendReturnsDeliveryId ==
    [][\A p \in Ports :
          (reply'[p].route = "send" /\ reply'[p].code = 200)
             => reply'[p].id = MessageId
      ]_vars

\* C28: an event of a client that is no longer the port's current client
\* changes neither the status nor the QR entry of the port, and leaves the
\* client stored for the port in place
C28_StaleEventsIgnored ==
    [][\A p \in Ports : \A c \in ClientIds :
          (/\ c # clients[p]
           /\ \/ \E qr \in QRs : W_qr(p, c, qr)
              \/ W_ready(p, c)
              \/ W_authenticated(p, c)
              \/ W_disconnected(p, c)
              \/ W_auth_failure(p, c))
          => /\ connectionStatus'[p] = connectionStatus[p]
             /\ qrCodes'[p] = qrCodes[p]
             /\ clients'[p] = clients[p]]_vars

----------------------------------------------------------------------------
(* Claims about the Express server of src/web-server.js *)

\* C9: once the startClient attempt made by the restart timer of a 'disconnected'
\* handler has seen its initialize() succeed, and its client has not been
\* destroyed since, the port has a tracked client
C9_RestartTracksClient ==
    \A p \in Ports : \A t \in BagToSet(tasks[p]) :
        (/\ t.op = "startClient" /\ t.by \in {"restart", "fbrestart"}
         /\ t.pc = "getState" /\ t.c \in live[p])
            => clients[p] # NoClient

\* C11: every step that moves a port to connected (connectionStatus becomes
\* true) or handles a 'disconnected' event leaves the stored QR code null
C11_QrNullAfterTransition ==
    [][\A p \in Ports :
          (\/ connectionStatus[p] # "true" /\ connectionStatus'[p] = "true"
           \/ \E c \in X_ClientIds : X_disconnected(p, c))
              => qrCodes'[p] = NoQR]_vars

C19_PortsIsolated ==
    [][/\ \E p \in AutoPorts : \A q \in AutoPorts \ {p} :
             /\ clients'[q] = clients[q]
             /\ qrCodes'[q] = qrCodes[q]
             /\ connectionStatus'[q] = connectionStatus[q]
             /\ lastState'[q] = lastState[q]
       /\ LaunchExecutable' = LaunchExecutable
      ]_vars

\* C24: when sendMessage rejects, POST /send answers 500 with success false
\* and an error string that holds the message of the underlying error, and the
\* step leaves clients, connectionStatus and qrCodes of the port as they were
C24_SendFailureAnswers500 ==
    [][\A p \in Ports : \A t \in BagToSet(tasks[p]) :
          X_sendMessage_settled(p, t, FALSE) =>
             LET r == X_send_response(FALSE)
             IN /\ send'[p].pc = "done" /\ send'[p].code = 500 /\ r.code = 500
                /\ r.success = FALSE
                /\ \E i \in DOMAIN r.error : r.error[i] = SendError
                /\ clients'[p] = clients[p]
                /\ connectionStatus'[p] = connectionStatus[p]
                /\ qrCodes'[p] = qrCodes[p]
      ]_vars

\* a forwarded POST /send was answered 500
C24_SendFailed ==
    \E p \in Ports :
        send[p].pc = "done" /\ send[p].code = 500 /\ send[p].forwarded

\* C29: the cleanup that belongs to one client (the 'disconnected' handler
\* after destroy(), the catch block of the startClient call that built it)
\* leaves a different client stored for the port in place
C29_CleanupOwnClientOnly ==
    [][\A p \in Ports : \A t \in BagToSet(tasks[p]) :
          (/\ clients[p] # NoClient
           /\ clients[p] # t.c
           /\ \/ X_disconnected_destroyed(p, t)
              \/ \E err \in InitErrors : X_initialize_rejected(p, t, err))
          => clients'[p] = clients[p]]_vars

\* C34: connectionStatus of a port is true only if a client is tracked for it
C34_ConnectedMeansTracked ==
    \A p \in Ports :
        connectionStatus[p] = "true" => clients[p] # NoClient

----------------------------------------------------------------------------
(* Claims about the server of src/unnamed/part_004 *)

\* C1: at any time at most one Client object of a port has been constructed and
\* not yet destroyed
C1_OneLiveClientPerPort ==
    \A p \in Ports : Cardinality(live[p]) <= 1

\* C12: the step that handles an 'auth_failure' event leaves the stored QR code
\* of the port null
C12_AuthFailureClearsQr ==
    [][\A p \in Ports : \A c \in ClientIds :
          P_auth_failure(p, c) => qrCodes'[p] = NoQR]_vars

\* C15: every GET /qr or /qr.png that is being handled is eventually answered
C15_QrAlwaysAnswered ==
    \A p \in Ports : QrPending(p) ~> ~QrPending(p)

\* C21: when fs.remove of GET /session/reset has settled the port has no
\* tracked client, so the client the request answers with is built afterwards
C21_ResetStartsClean ==
    [][\A p \in Ports : \A t \in BagToSet(tasks[p]) :
          P_reset_removed(p, t) => clients[p] = NoClient
      ]_vars

\* C27: a request without the matching token header never reaches a channel
\* operation (start, status refresh, send, logout, reset): no step of the
\* server is the handler of such a request
C27_TokenGuardsOperations ==
    [][\A p \in Ports : ~P_http(p, "none")]_vars

\* C30: whenever a startClient call rejects (the catch block rethrows, or the
\* fallback client's initialize() rejects inside it), no client is stored for
\* the port afterwards
C30_RejectedStartLeavesNoEntry ==
    [][\A p \in Ports : \A t \in BagToSet(tasks[p]) : \A err \in InitErrors :
          (/\ P_initialize_rejected(p, t, err)
           /\ t.fb \/ err # "chrome")
          => clients'[p] = NoClient]_vars

\* C37: while lastState is neither CONNECTED nor UNKNOWN, a GET /status calls
\* getState() only if more than 4000 ms have passed since the last call of a
\* GET /status, and otherwise answers from the cached connectionStatus
C37_StatusThrottled ==
    [][\A p \in Ports :
          (P_status_at(p) /\ lastState[p] \notin {"CONNECTED", "UNKNOWN"})
             => IF Size(tasks'[p]) > Size(tasks[p])
                THEN clock - lastCallAt[p] > statusThrottle
                ELSE /\ reply'[p] = [route |-> "status", connected |-> connectionStatus[p] = "true"]
                     /\ UNCHANGED <<tasks, connectionStatus, lastState>>
      ]_vars

\* a GET /status was answered from the cache while an earlier one still
\* awaits getState() and the state is OPENING
C37_Throttled ==
    \E p \in Ports :
        /\ reply[p] = [route |-> "status", connected |-> FALSE]
        /\ lastState[p] = "OPENING"
        /\ lastCallAt[p] > 0
        /\ \E t \in BagToSet(tasks[p]) : t.op = "status"

----------------------------------------------------------------------------
(* Claims about the single-channel server of src/unnamed/part_006 *)

\* C23: a GET /connect or GET /qr that comes right after a rejected
\* initialize() or a 'disconnected' event, the channel not being connected,
\* drops the stale client and builds a new one
C23_StaleClientReplaced ==
    [][\A p \in Ports :
          (/\ lastEvent[p] \in {"initialize_rejected", "disconnected"}
           /\ ~Truthy(connectionStatus[p])
           /\ S_connect(p) \/ S_qr_request(p))
             => /\ clients'[p] # clients[p]
                /\ clients'[p] \in live'[p]
                /\ clients[p] \notin live'[p]
      ]_vars

----------------------------------------------------------------------------
(* Claims about the single-channel server of src/unnamed/part_002 *)

\* C26: every answer is a JSON object with a boolean field success, and every
\* answer with a status of 400 or more has success false and an error string
C26_JsonWithSuccess ==
    \A p \in Ports :
        reply[p].route = "http" =>
            /\ reply[p].success \in {"true", "false"}
            /\ reply[p].code >= 400 => (reply[p].success = "false" /\ reply[p].error)

\* C35: while a startWhatsAppClient call is between setting isInitializing
\* and assigning its new Client (it awaits destroy()), no other call passes
\* the guards: two destroy-then-construct sequences are never under way at once
C35_StartsDoNotInterleave ==
    \A p \in Ports :
        Size([t \in {u \in BagToSet(tasks[p]) : u.op = "startClient" /\ u.pc = "destroy"}
                 |-> CopiesIn(t, tasks[p])]) <= 1

\* C36: a start that set isInitializing is eventually followed by
\* isInitializing = false, once its initialize() has settled
C36_InitializingEventuallyReset ==
    isInitializing ~> ~isInitializing

====
